---- MODULE Spec2Model ----
(***************************************************************************)
(* Model of the streamlit-geo001 dashboard: the dataset loader, the label  *)
(* loader, the required-column validation and the rendering pass of each   *)
(* page under src/pages.  One action is one synchronous top-to-bottom      *)
(* rendering pass of one page (Streamlit re-runs the script on every       *)
(* interaction).  to_crs(epsg=4326) only changes geometry coordinates and  *)
(* is not represented: no attribute, row or control flow depends on it.    *)
(***************************************************************************)
EXTENDS Integers, Sequences, FiniteSets, TLC

\* ------------------------------------------------------------------ bounds
MaxRows == 3          \* rows of the datasets whose columns vary
MaxIdRows == 11       \* rows of the largest dataset (two-digit identifiers)
MaxRenders == 2       \* rendering passes in one behaviour

\* --------------------------------------------------------------- constants
ADM1 == "dep"
ADM3 == "mun"
INDICATOR1 == "imds"
INDICATOR2 == "pop2020"

\* ----------------------------------------------------------------- values
\* An absent file, Python's None and an empty cache slot are the empty
\* sequence; a present value v is <<v>>.
Absent == <<>>
None == <<>>
NoEntry == <<>>
File(c) == <<c>>
\* A CSV / dict cell: NaN (an empty cell read by pandas) or a string.
NaN == <<>>
Text(s) == <<s>>
EmptyDict == [k \in {} |-> NaN]

RECURSIVE SeqToSet(_)
SeqToSet(s) == IF s = <<>> THEN {} ELSE {s[1]} \cup SeqToSet(Tail(s))

Front(s) == SubSeq(s, 1, Len(s) - 1)

\* the columns of `order` that are in `keep`, in the order of `order`
RECURSIVE Restrict(_, _)
Restrict(order, keep) ==
    IF order = <<>> THEN <<>>
    ELSE IF order[1] \in keep THEN <<order[1]>> \o Restrict(Tail(order), keep)
    ELSE Restrict(Tail(order), keep)

\* ------------------------------------------------------- the input files
\* A dataset file: n records, the attribute columns in file order, and the
\* columns pandas reads with a numeric dtype.
AllColumns == <<ADM1, ADM3, INDICATOR1, INDICATOR2>>
NumericNames == {INDICATOR1, INDICATOR2}

Dataset(n, cols) ==
    [n |-> n, cols |-> cols, num |-> SeqToSet(cols) \cap NumericNames]

\* the canonical dataset served by the fixed remote URL
RemoteData == Dataset(MaxRows, AllColumns)

\* every choice of columns with MaxRows records, and every number of records
\* up to MaxIdRows with one numeric column
Datasets ==
    {Dataset(MaxRows, Restrict(AllColumns, keep)) : keep \in SUBSET SeqToSet(AllColumns)}
    \cup {Dataset(n, <<ADM1, ADM3, INDICATOR1>>) : n \in 0..MaxIdRows}

\* A label definitions file: whether pandas can read it, whether it has the
\* Variable and Label columns, and its rows <<Variable, Label cell>>.
LabelVars == <<INDICATOR1, INDICATOR2, ADM1>>
LabelText(v) ==
    CASE v = INDICATOR1 -> "Municipal Development Index"
      [] v = INDICATOR2 -> "Population 2020"
      [] OTHER -> "Departamento"

LabelTable(status) ==
    LET Row(v) == IF status[v] = "none" THEN <<>>
                  ELSE IF status[v] = "empty" THEN << <<v, NaN>> >>
                  ELSE << <<v, Text(LabelText(v))>> >>
    IN  Row(LabelVars[1]) \o Row(LabelVars[2]) \o Row(LabelVars[3])

\* an unreadable file, a file without the two columns, and the tables that
\* give INDICATOR1 and ADM1 no row, an empty label or a label, with or
\* without a row of INDICATOR2 with an empty label
LabelFiles ==
    {[ok |-> FALSE, hasCols |-> TRUE, rows |-> <<>>],
     [ok |-> TRUE, hasCols |-> FALSE, rows |-> <<>>]}
    \cup {[ok |-> TRUE, hasCols |-> TRUE, rows |-> LabelTable(st)] :
            st \in {f \in [SeqToSet(LabelVars) -> {"none", "empty", "text"}] :
                       /\ f[INDICATOR2] # "text"
                       /\ f[INDICATOR2] = "empty" => f[INDICATOR1] = "text"}}

\* ------------------------------------------------------------------ state
VARIABLES
    dataFile,     \* map_and_data.geojson on local disk: Absent or File(dataset)
    labelFile,    \* dataDefinitions.csv on local disk: Absent or File(label file)
    cache,        \* st.cache_data: page -> [data, labels], each NoEntry or <<entry>>
    renders,      \* rendering passes so far
    page,         \* the page of the last rendering pass
    out,          \* the elements that pass emitted, in order
    io,           \* the file and network operations of that pass, in order
    halt,         \* how the pass ended: "end", "return", "stop", "exception"
    required_cols,\* the names that pass validated
    missing_cols, \* the names it reported missing
    chart,        \* the charting call of that pass: <<>> or <<[kind, cols, labels, ok]>>
    map_height,   \* st.session_state.map_height of the session: <<>> (unset) or <<h>>
    aged,         \* the stored entries made more than 3600 seconds ago: <<page, slot>>
    height_slider,\* the "Map height" slider of the last pass: <<>> (not reached) or
                  \* <<[default, value]>>, its value= argument and what it returned
    stataFile,    \* dataStata.dta on local disk: Absent or File([ok, data])
    downloads,    \* the artifacts behind the download buttons of the last pass:
                  \* button -> artifact
    export_gdf,   \* a Feature Collection with its cell values, given to the CSV export
    csv_data,     \* the text gdf.drop(columns=['geometry']).to_csv(index=False) made of it
    reread,       \* the table pd.read_csv makes of that text
    selected,     \* what the column selectboxes of the last pass returned, in the
                  \* order of the script: [index, col, options]
    trend,        \* what the trendline selectboxes of the last pass returned:
                  \* [selected_trendline, selected_scope]
    regress       \* rows given to the regression block of Scatterfit2 and what it
                  \* displayed: [data, scope, scipy, shown, stats_df, done]

vars == <<dataFile, labelFile, cache, renders, page, out, io, halt,
          required_cols, missing_cols, chart, map_height, aged,
          height_slider, stataFile, downloads, export_gdf, csv_data, reread, selected, trend, regress>>

\* the variables of the CSV export and re-read
ExportVars == <<export_gdf, csv_data, reread>>
NoExport == export_gdf = <<>> /\ csv_data = <<>> /\ reread = <<>>

\* ------------------------------------------------------------ the loaders
Digit(d) ==
    CASE d = 0 -> "0" [] d = 1 -> "1" [] d = 2 -> "2" [] d = 3 -> "3"
      [] d = 4 -> "4" [] d = 5 -> "5" [] d = 6 -> "6" [] d = 7 -> "7"
      [] d = 8 -> "8" [] OTHER -> "9"

\* a conversion that keeps the last digit only
astype_str_units(i) == Digit(i % 10)

\* str(i) of a non-negative integer
RECURSIVE astype_str(_)
astype_str(i) ==
    IF i < 10 THEN Digit(i) ELSE astype_str(i \div 10) \o Digit(i % 10)

\* gpd.read_file: the Feature Collection of a dataset file, RangeIndex 0..n-1
read_file(ds) ==
    [n |-> ds.n, cols |-> ds.cols, num |-> ds.num, index |-> [i \in 1..ds.n |-> i - 1],
     id |-> <<>>]

\* the identifier taken from a one-based position
assign_id_one_based(gdf) ==
    [gdf EXCEPT !.cols = IF "id" \in SeqToSet(gdf.cols) THEN gdf.cols
                         ELSE Append(gdf.cols, "id"),
                !.num = gdf.num \ {"id"},
                !.id = [i \in 1..gdf.n |-> astype_str(gdf.index[i] + 1)]]

\* data["id"] = data.index.astype(str)
assign_id(gdf) ==
    [gdf EXCEPT !.cols = IF "id" \in SeqToSet(gdf.cols) THEN gdf.cols
                         ELSE Append(gdf.cols, "id"),
                !.num = gdf.num \ {"id"},
                !.id = [i \in 1..gdf.n |-> astype_str(gdf.index[i])]]

\* The outcome of running a function body: its return value, the elements it
\* emitted, its file/network operations, the dataset file afterwards, and
\* whether it raised ("none", "stop" for st.stop(), "exception").
Outcome(val, elems, ops, file, exc) ==
    [val |-> val, elems |-> elems, ops |-> ops, file |-> file, exc |-> exc]

\* What the remote read and the local save of a fallback fetch can do: the
\* read fails, the read succeeds and the save fails, or both succeed.  Only
\* a load that runs with the file absent reaches the network.
Network(slot, file) ==
    IF slot = NoEntry /\ file = Absent THEN {"fetch_fail", "write_fail", "ok"}
    ELSE {"ok"}

\* load_data of Plotlymap returning an empty collection, not None, on failure
load_data_6_empty(file, net) ==
    IF file # Absent
    THEN Outcome(<<assign_id(read_file(file[1]))>>, <<>>,
                 <<"exists_data", "read_local">>, file, "none")
    ELSE IF net = "fetch_fail"
    THEN Outcome(<<assign_id(read_file(Dataset(0, <<>>)))>>, <<"error">>,
                 <<"exists_data", "fetch_fail">>, file, "none")
    ELSE IF net = "write_fail"
    THEN Outcome(None, <<"error">>, <<"exists_data", "fetch_ok", "write_fail">>,
                 file, "none")
    ELSE Outcome(<<assign_id(read_file(RemoteData))>>, <<>>,
                 <<"exists_data", "fetch_ok", "write_ok">>, File(RemoteData), "none")

\* Plotlymap: load_data, try/except around local read or remote fetch + save
load_data_6(file, net) ==
    IF file # Absent
    THEN Outcome(<<assign_id(read_file(file[1]))>>, <<>>,
                 <<"exists_data", "read_local">>, file, "none")
    ELSE IF net = "fetch_fail"
    THEN Outcome(None, <<"error">>, <<"exists_data", "fetch_fail">>, file, "none")
    ELSE IF net = "write_fail"
    THEN Outcome(None, <<"error">>, <<"exists_data", "fetch_ok", "write_fail">>,
                 file, "none")
    ELSE Outcome(<<assign_id(read_file(RemoteData))>>, <<>>,
                 <<"exists_data", "fetch_ok", "write_ok">>, File(RemoteData), "none")

\* load_data of PlotlymapV2 trying the remote read a second time when it fails
load_data_7_retry(file, net) ==
    IF file # Absent
    THEN Outcome(<<assign_id(read_file(file[1]))>>, <<>>,
                 <<"exists_data", "read_local">>, file, "none")
    ELSE IF net = "fetch_fail"
    THEN Outcome(None, <<>>, <<"exists_data", "fetch_fail", "fetch_fail">>, file,
                 "exception")
    ELSE IF net = "write_fail"
    THEN Outcome(None, <<>>, <<"exists_data", "fetch_ok", "write_fail">>,
                 file, "exception")
    ELSE Outcome(<<assign_id(read_file(RemoteData))>>, <<>>,
                 <<"exists_data", "fetch_ok", "write_ok">>, File(RemoteData), "none")

\* load_data of PlotlymapV2 without the data.to_file call
load_data_7_unsaved(file, net) ==
    IF file # Absent
    THEN Outcome(<<assign_id(read_file(file[1]))>>, <<>>,
                 <<"exists_data", "read_local">>, file, "none")
    ELSE IF net = "fetch_fail"
    THEN Outcome(None, <<>>, <<"exists_data", "fetch_fail">>, file, "exception")
    ELSE Outcome(<<assign_id(read_file(RemoteData))>>, <<>>,
                 <<"exists_data", "fetch_ok", "write_ok">>, file, "none")

\* PlotlymapV2: load_data, the same without try/except
load_data_7(file, net) ==
    IF file # Absent
    THEN Outcome(<<assign_id(read_file(file[1]))>>, <<>>,
                 <<"exists_data", "read_local">>, file, "none")
    ELSE IF net = "fetch_fail"
    THEN Outcome(None, <<>>, <<"exists_data", "fetch_fail">>, file, "exception")
    ELSE IF net = "write_fail"
    THEN Outcome(None, <<>>, <<"exists_data", "fetch_ok", "write_fail">>,
                 file, "exception")
    ELSE Outcome(<<assign_id(read_file(RemoteData))>>, <<>>,
                 <<"exists_data", "fetch_ok", "write_ok">>, File(RemoteData), "none")

\* a load_geo_data that saves the Feature Collection it read back to the path
load_geo_data_saves(file) ==
    IF file = Absent
    THEN Outcome(None, <<"error">>, <<"exists_data">>, file, "stop")
    ELSE Outcome(<<assign_id(read_file(file[1]))>>, <<>>,
                 <<"exists_data", "read_local", "write_ok">>,
                 File(read_file(file[1])), "none")

\* Treemap, Stripplot, Histogram, Scatterfit, Scatterfit2, PlotlymapV3:
\* load_geo_data(path), st.error + st.stop() when the file is not there
load_geo_data(file) ==
    IF file = Absent
    THEN Outcome(None, <<"error">>, <<"exists_data">>, file, "stop")
    ELSE Outcome(<<assign_id(read_file(file[1]))>>, <<>>,
                 <<"exists_data", "read_local">>, file, "none")

\* Documentation_and_data: load_geo_data(path), no identifier column
load_geo_data_99(file) ==
    IF file = Absent
    THEN Outcome(None, <<"error">>, <<"exists_data">>, file, "stop")
    ELSE Outcome(<<read_file(file[1])>>, <<>>,
                 <<"exists_data", "read_local">>, file, "none")

\* dict(zip(keys, values)): a later row with the same key replaces an earlier one
RECURSIVE dict_zip(_)
dict_zip(rows) ==
    IF rows = <<>> THEN EmptyDict
    ELSE LET d == dict_zip(Front(rows))
             last == rows[Len(rows)]
         IN  [k \in DOMAIN d \cup {last[1]} |-> IF k = last[1] THEN last[2] ELSE d[k]]

\* a lookup that ignores the dictionary
get_default(d, key, default) == default

\* dict.get(key, default)
get(d, key, default) == IF key \in DOMAIN d THEN d[key] ELSE default

\* df['Label'] = df['Label'].fillna(df['Variable'])
fillna(rows) ==
    [i \in 1..Len(rows) |->
        IF rows[i][2] = NaN THEN <<rows[i][1], Text(rows[i][1])>> ELSE rows[i]]

\* Plotlymap: load_data_dictionary, try/except, no fillna
load_data_dictionary_6(lfile) ==
    IF lfile = Absent
    THEN Outcome(EmptyDict, <<>>, <<"exists_labels">>, Absent, "none")
    ELSE IF ~lfile[1].ok
    THEN Outcome(EmptyDict, <<"warning">>, <<"exists_labels", "read_labels_fail">>,
                 Absent, "none")
    ELSE Outcome(IF lfile[1].hasCols THEN dict_zip(lfile[1].rows) ELSE EmptyDict,
                 <<>>, <<"exists_labels", "read_labels">>, Absent, "none")

\* PlotlymapV2: load_data_dictionary, no try/except, no fillna
load_data_dictionary_7(lfile) ==
    IF lfile = Absent
    THEN Outcome(EmptyDict, <<>>, <<"exists_labels">>, Absent, "none")
    ELSE IF ~lfile[1].ok
    THEN Outcome(EmptyDict, <<>>, <<"exists_labels", "read_labels_fail">>,
                 Absent, "exception")
    ELSE Outcome(IF lfile[1].hasCols THEN dict_zip(lfile[1].rows) ELSE EmptyDict,
                 <<>>, <<"exists_labels", "read_labels">>, Absent, "none")

\* load_labels halting the pass when the file is not there
load_labels_required(lfile) ==
    IF lfile = Absent
    THEN Outcome(EmptyDict, <<"error">>, <<"exists_labels">>, Absent, "stop")
    ELSE IF ~lfile[1].ok
    THEN Outcome(EmptyDict, <<"warning">>, <<"exists_labels", "read_labels_fail">>,
                 Absent, "none")
    ELSE Outcome(IF lfile[1].hasCols THEN dict_zip(fillna(lfile[1].rows)) ELSE EmptyDict,
                 <<>>, <<"exists_labels", "read_labels">>, Absent, "none")

\* Treemap, Stripplot, Histogram, Scatterfit, Scatterfit2, PlotlymapV3:
\* load_labels(path), try/except around the read, fillna before the zip
load_labels(lfile) ==
    IF lfile = Absent
    THEN Outcome(EmptyDict, <<>>, <<"exists_labels">>, Absent, "none")
    ELSE IF ~lfile[1].ok
    THEN Outcome(EmptyDict, <<"warning">>, <<"exists_labels", "read_labels_fail">>,
                 Absent, "none")
    ELSE Outcome(IF lfile[1].hasCols THEN dict_zip(fillna(lfile[1].rows)) ELSE EmptyDict,
                 <<>>, <<"exists_labels", "read_labels">>, Absent, "none")

\* Documentation_and_data: load_definitions(path), st.error + st.stop() when the
\* file is not there, pd.read_csv otherwise (the rows as read)
load_definitions(lfile) ==
    IF lfile = Absent
    THEN Outcome(<<>>, <<"error">>, <<"exists_labels">>, Absent, "stop")
    ELSE IF ~lfile[1].ok
    THEN Outcome(<<>>, <<>>, <<"exists_labels", "read_labels_fail">>, Absent, "exception")
    ELSE Outcome(lfile[1].rows, <<>>, <<"exists_labels", "read_labels">>, Absent, "none")

\* ------------------------------------------------------------ st.cache_data
\* a cached function whose stored entries are never looked up
cache_data_uncached(entry, body, file) == body

\* A call of a cached function: a stored entry is returned (its value and its
\* recorded elements replayed) without running the body.
cache_data(entry, body, file) ==
    IF entry # NoEntry
    THEN Outcome(entry[1].val, entry[1].elems, <<>>, file, "none")
    ELSE body

\* a cache that hands out the stored object itself, so that what the script
\* does to it is done to the entry
cache_reference(slots, used) ==
    [slots EXCEPT !.data = <<[val |-> <<used>>, elems |-> slots.data[1].elems]>>]

\* st.cache_data hands every call a copy of the stored value: the object
\* `used`, as the script left it at the end of the pass, is dropped and the
\* entries stay as they were
cache_copy(slots, used) == slots

\* a cache that keeps no None: a body that returned None is run again by
\* the next call
cache_store_not_none(entry, body) ==
    IF entry # NoEntry THEN entry
    ELSE IF body.exc = "none" /\ body.val # None
    THEN <<[val |-> body.val, elems |-> body.elems]>>
    ELSE NoEntry

\* The slot after the call: a body that returned is stored, one that raised
\* (st.stop() included) is not.
cache_store(entry, body) ==
    IF entry # NoEntry THEN entry
    ELSE IF body.exc = "none" THEN <<[val |-> body.val, elems |-> body.elems]>>
    ELSE NoEntry

Pages == {"Plotlymap", "PlotlymapV2", "PlotlymapV3", "Scatterfit", "Treemap",
          "Stripplot", "Histogram", "Scatterfit2", "Documentation"}

\* ---------------------------------------------------- column validation
\* a validation that reports the first missing name only
RECURSIVE first_missing(_, _)
first_missing(required, columns) ==
    IF required = <<>> THEN <<>>
    ELSE IF required[1] \in SeqToSet(columns) THEN first_missing(Tail(required), columns)
    ELSE <<required[1]>>

\* missing_cols = [col for col in required_cols if col not in data.columns]
RECURSIVE missing(_, _)
missing(required, columns) ==
    IF required = <<>> THEN <<>>
    ELSE IF required[1] \in SeqToSet(columns) THEN missing(Tail(required), columns)
    ELSE <<required[1]>> \o missing(Tail(required), columns)

\* a selection of options that offers every column, numeric or not
numeric_cols_all(data) == data.cols

\* data.select_dtypes(include=['number']).columns.tolist()
numeric_cols(data) == Restrict(data.cols, data.num)

\* var_options = [(col, labels.get(col, col)) for col in numeric_cols]
var_options(data, labels) ==
    LET nc == numeric_cols(data)
    IN  [i \in 1..Len(nc) |-> <<nc[i], get(labels, nc[i], Text(nc[i]))>>]

\* a plotly express call: the columns it is given, the labels= argument, and
\* whether every column it is given is a column of the data frame (plotly
\* raises ValueError otherwise)
px(kind, data, cols, labels) ==
    [kind |-> kind, cols |-> cols, labels |-> labels,
     ok |-> cols \subseteq SeqToSet(data.cols)]

\* ------------------------------------------------------ the page scripts
\* What a page script does after its loaders returned: the elements it emits,
\* how the pass ends, the names it validated, the names it reported missing
\* and its charting call.
Rest(elems, how, req, miss, ch) ==
    [elems |-> elems, how |-> how, req |-> req, miss |-> miss, ch |-> ch]

\* a selectbox over range(len(var_options)): the positions the operator can
\* choose; with no option the widget returns None (position 0 here)
Positions(data) ==
    IF numeric_cols(data) = <<>> THEN {0} ELSE 1..Len(numeric_cols(data))

\* the option a selectbox shows when none of the variable_options is its
\* default indicator: index 0
DefaultPosition(data) == IF numeric_cols(data) = <<>> THEN 0 ELSE 1

\* the elements of a charting call: the figure, or the uncaught ValueError
Shown(ch) == IF ch.ok THEN <<"chart">> ELSE <<"exception">>
How(ch) == IF ch.ok THEN "end" ELSE "exception"

\* Treemap: lines 51-141
treemap_page(data, labels, ci, si, hi) ==
    LET opts == var_options(data, labels)
    IN  IF opts = <<>>
        THEN Rest(<<"header", "widget", "exception">>, "exception", <<>>, <<>>, <<>>)
        ELSE
        LET required == <<ADM1, ADM3, opts[ci][1], opts[si][1], opts[hi][1]>>
            miss == missing(required, data.cols)
            data_dict == dict_zip(<< <<opts[ci][1], opts[ci][2]>>,
                                     <<opts[si][1], opts[si][2]>>,
                                     <<opts[hi][1], opts[hi][2]>>,
                                     <<ADM1, get(labels, ADM1, Text("Department"))>>,
                                     <<ADM3, get(labels, ADM3, Text("Municipality"))>> >>)
            fig == px("treemap", data,
                      {opts[ci][1], opts[si][1], ADM1, ADM3, opts[hi][1]}, data_dict)
        IN  IF miss # <<>>
            THEN Rest(<<"header", "widget", "widget", "widget", "error">>, "stop",
                      required, miss, <<>>)
            ELSE Rest(<<"header", "widget", "widget", "widget", "subheader">>
                        \o Shown(fig) \o (IF fig.ok THEN <<"info", "text">> ELSE <<>>),
                      How(fig), required, miss, <<fig>>)

\* Stripplot: lines 47-97
stripplot_page(data, labels, xi) ==
    LET opts == var_options(data, labels)
    IN  IF opts = <<>>
        THEN Rest(<<"header", "widget", "exception">>, "exception", <<>>, <<>>, <<>>)
        ELSE
        LET data_dict == dict_zip(<< <<opts[xi][1], opts[xi][2]>>,
                                     <<ADM1, get(labels, ADM1, Text("Department"))>> >>)
            fig == px("strip", data, {opts[xi][1], ADM1, ADM3}, data_dict)
        IN  IF ADM1 \notin SeqToSet(data.cols)
            THEN Rest(<<"header", "widget", "error">>, "stop", <<ADM1, ADM3>>, <<ADM1>>, <<>>)
            ELSE IF ADM3 \notin SeqToSet(data.cols)
            THEN Rest(<<"header", "widget", "error">>, "stop", <<ADM1, ADM3>>, <<ADM3>>, <<>>)
            ELSE Rest(<<"header", "widget", "subheader">>
                        \o Shown(fig) \o (IF fig.ok THEN <<"info">> ELSE <<>>),
                      How(fig), <<ADM1, ADM3>>, <<>>, <<fig>>)

\* Histogram: lines 48-109
histogram_page(data, labels, xi, ai) ==
    LET opts == var_options(data, labels)
    IN  IF opts = <<>>
        THEN Rest(<<"header", "widget", "exception">>, "exception", <<>>, <<>>, <<>>)
        ELSE
        LET data_dict == dict_zip(<< <<opts[xi][1], opts[xi][2]>>,
                                     <<ADM1, get(labels, ADM1, Text("Department"))>>,
                                     <<opts[ai][1], opts[ai][2]>> >>)
            fig == px("histogram", data, {opts[xi][1], ADM1, ADM3, opts[ai][1]}, data_dict)
        IN  IF ADM1 \notin SeqToSet(data.cols)
            THEN Rest(<<"header", "widget", "widget", "error">>, "stop",
                      <<ADM1, ADM3>>, <<ADM1>>, <<>>)
            ELSE IF ADM3 \notin SeqToSet(data.cols)
            THEN Rest(<<"header", "widget", "widget", "error">>, "stop",
                      <<ADM1, ADM3>>, <<ADM3>>, <<>>)
            ELSE Rest(<<"header", "widget", "widget", "subheader">>
                        \o Shown(fig) \o (IF fig.ok THEN <<"info">> ELSE <<>>),
                      How(fig), <<ADM1, ADM3>>, <<>>, <<fig>>)

\* PlotlymapV3: lines 46-85, hover_name="mun" is assumed to exist
plotlymapv3_page(data, labels, i) ==
    LET opts == var_options(data, labels)
    IN  IF opts = <<>>
        THEN Rest(<<"widget", "exception">>, "exception", <<>>, <<>>, <<>>)
        ELSE
        LET fig == px("choropleth_mapbox", data, {"id", opts[i][1], "mun"},
                      dict_zip(<< <<opts[i][1], opts[i][2]>> >>))
        IN  Rest(<<"widget", "subheader">> \o Shown(fig)
                    \o (IF fig.ok THEN <<"info">> ELSE <<>>),
                 How(fig), <<>>, <<>>, <<fig>>)

\* Scatterfit: lines 47-98, hover_name="mun" is assumed to exist
scatterfit_page(data, labels, xi, yi) ==
    LET opts == var_options(data, labels)
    IN  IF opts = <<>>
        THEN Rest(<<"header", "widget", "exception">>, "exception", <<>>, <<>>, <<>>)
        ELSE
        LET fig == px("scatter", data, {opts[xi][1], opts[yi][1], "mun"},
                      dict_zip(<< <<opts[xi][1], opts[xi][2]>>,
                                  <<opts[yi][1], opts[yi][2]>> >>))
        IN  Rest(<<"header", "widget", "widget", "subheader">> \o Shown(fig)
                    \o (IF fig.ok THEN <<"info">> ELSE <<>>),
                 How(fig), <<>>, <<>>, <<fig>>)

\* What the regression block (lines 179-257) reads of the data: for each
\* group of rows it fits (the whole data, or one group per department) the
\* number of rows dropna() leaves and whether their x values are all equal.
\* GroupRows are the row counts around the len(...) > 2 test.
GroupRows == {0, 2, 3}
MaxGroups == 2

RECURSIVE SumRows(_)
SumRows(groups) ==
    IF groups = <<>> THEN 0 ELSE groups[1].rows + SumRows(Tail(groups))

Group == {g \in [rows : GroupRows, flat : BOOLEAN] : g.flat => g.rows > 0}

RECURSIVE GroupSeqs(_)
GroupSeqs(k) ==
    IF k = 0 THEN {<<>>}
    ELSE GroupSeqs(k - 1)
         \cup {Append(gs, g) : gs \in {h \in GroupSeqs(k - 1) : Len(h) = k - 1}, g \in Group}

\* the groups a collection of n rows can give: one for the overall scope,
\* one per department otherwise (none when there is no row)
Groups(scope, n) ==
    {gs \in GroupSeqs(MaxGroups) :
        /\ SumRows(gs) <= n
        /\ scope = "Overall" => Len(gs) = 1
        /\ (scope # "Overall" /\ n > 0) => Len(gs) >= 1}

\* scipy as installed: stats.linregress raises ValueError when all x values
\* are identical (recent versions) or returns NaN statistics (older ones);
\* or the package is not there and the import fails
Scipy == {"raises", "nan", "missing"}

\* stats.linregress(x, y) of a group fails
linregress_fails(g, scipy) == g.flat /\ scipy = "raises"

\* a regression block without the try/except
regression_uncaught(scope, groups, scipy) ==
    IF scipy = "missing" THEN <<"exception">>
    ELSE IF scope = "Overall"
    THEN IF groups[1].rows > 2
         THEN IF linregress_fails(groups[1], scipy) THEN <<"exception">> ELSE <<"stats">>
         ELSE <<>>
    ELSE <<"text">> \o
         (IF \E i \in 1..Len(groups) :
                groups[i].rows > 2 /\ linregress_fails(groups[i], scipy)
          THEN <<"exception">>
          ELSE IF \E i \in 1..Len(groups) : groups[i].rows > 2 THEN <<"table">>
          ELSE <<"info">>)

\* Scatterfit2, lines 179-257 (trendline == 'ols'): the elements the block
\* emits.  Any exception inside the try is shown as a warning.
regression(scope, groups, scipy) ==
    IF scipy = "missing" THEN <<"warning">>
    ELSE IF scope = "Overall"
    THEN IF groups[1].rows > 2
         THEN IF linregress_fails(groups[1], scipy) THEN <<"warning">> ELSE <<"stats">>
         ELSE <<>>
    ELSE <<"text">> \o
         (IF \E i \in 1..Len(groups) :
                groups[i].rows > 2 /\ linregress_fails(groups[i], scipy)
          THEN <<"warning">>
          ELSE IF \E i \in 1..Len(groups) : groups[i].rows > 2 THEN <<"table">>
          ELSE <<"info">>)

\* Scatterfit2: lines 50-257.  trendline is "None", "OLS" or "Lowess", scope
\* "Overall" or "Per Department"; stats is what the regression block
\* displays for the data at hand.
RegressionShown(scope, data) ==
    {regression(scope, gs, scipy) : gs \in Groups(scope, data.n), scipy \in Scipy}

\* a trendline_map that gives 'ols' for Lowess
trendline_map_lowess_ols(selected_trendline) ==
    CASE selected_trendline = "None" -> None
      [] selected_trendline = "OLS" -> <<"ols">>
      [] OTHER -> <<"ols">>

\* lines 99-104: trendline = trendline_map[selected_trendline]
trendline_map(selected_trendline) ==
    CASE selected_trendline = "None" -> None
      [] selected_trendline = "OLS" -> <<"ols">>
      [] OTHER -> <<"lowess">>

\* line 109: 'overall' if selected_scope == 'Overall' else 'trace'
trendline_scope(selected_scope) ==
    IF selected_scope = "Overall" THEN "overall" ELSE "trace"

scatterfit2_page(data, labels, xi, yi, hi, selected_trendline, selected_scope, stats) ==
    LET opts == var_options(data, labels)
    IN  IF opts = <<>>
        THEN Rest(<<"header", "widget", "exception">>, "exception", <<>>, <<>>, <<>>)
        ELSE
        LET required == <<ADM1, ADM3, opts[xi][1], opts[yi][1], opts[hi][1]>>
            miss == missing(required, data.cols)
            data_dict == dict_zip(<< <<opts[xi][1], opts[xi][2]>>,
                                     <<opts[yi][1], opts[yi][2]>>,
                                     <<opts[hi][1], opts[hi][2]>>,
                                     <<ADM1, get(labels, ADM1, Text("Department"))>>,
                                     <<ADM3, get(labels, ADM3, Text("Municipality"))>> >>)
            fig == px("scatter", data,
                      {opts[xi][1], opts[yi][1], ADM1, ADM3, opts[hi][1]}, data_dict)
                   @@ [trendline |-> trendline_map(selected_trendline),
                       trendline_scope |-> trendline_scope(selected_scope),
                       trendline_color_override |->
                           IF trendline_scope(selected_scope) = "overall"
                           THEN <<"red">> ELSE None]
            widgets == <<"header", "widget", "widget", "widget", "widget", "widget">>
        IN  IF miss # <<>>
            THEN Rest(widgets \o <<"error">>, "stop", required, miss, <<>>)
            ELSE IF ~fig.ok
            THEN Rest(widgets \o <<"subheader", "exception">>, "exception",
                      required, miss, <<fig>>)
            ELSE Rest(widgets \o <<"subheader", "chart", "info", "text">>
                        \o (IF trendline_map(selected_trendline) = <<"ols">>
                            THEN stats ELSE <<>>),
                      "end", required, miss, <<fig>>)

\* create_map, lines 81-85: data['is_selected'] = data['mun'].isin(selected_regions)
mark_selected(data, selected_regions) ==
    IF selected_regions
    THEN [data EXCEPT !.cols = IF "is_selected" \in SeqToSet(data.cols)
                               THEN data.cols
                               ELSE Append(data.cols, "is_selected")]
    ELSE data

\* Plotlymap: create_map, lines 71-121.  The ValueError of the charting call
\* is caught and shown as an error.
create_map(data, variable_labels, color_column, numeric_columns, selected_regions) ==
    LET first3 == SubSeq(numeric_columns, 1,
                         IF Len(numeric_columns) < 3 THEN Len(numeric_columns) ELSE 3)
        hover_cols == {color_column} \cup SeqToSet(first3)
        marked == mark_selected(data, selected_regions)
        labels == [c \in hover_cols \cup {"mun"}
                        \cup (IF selected_regions THEN {"is_selected"} ELSE {}) |->
                     IF c = "is_selected" /\ selected_regions THEN Text("Selected Region")
                     ELSE get(variable_labels, c, Text(c))]
    IN  px("choropleth_mapbox", marked,
           {"id", color_column, "mun"} \cup hover_cols
              \cup (IF selected_regions THEN {"is_selected"} ELSE {}),
           labels)

\* Plotlymap: main, lines 142-210, after the loads.  regions: the operator
\* picked at least one region to highlight.
plotlymap_page(data, variable_labels, ci, regions) ==
    LET numeric_columns == numeric_cols(data)
    IN  IF numeric_columns = <<>>
        THEN Rest(<<"header", "widget", "warning">>, "return", <<>>, <<>>, <<>>)
        ELSE
        LET color_column == numeric_columns[ci]
            hasMun == "mun" \in SeqToSet(data.cols)
            selected_regions == hasMun /\ regions
            fig == create_map(data, variable_labels, color_column, numeric_columns,
                              selected_regions)
        IN  Rest(<<"header", "widget", "widget", "widget", "widget", "widget", "widget">>
                    \o (IF hasMun THEN <<"widget">> ELSE <<>>)
                    \o <<"subheader">>
                    \o (IF fig.ok THEN <<"chart">> ELSE <<"error">>)
                    \o <<"table">>,
                 "end", <<>>, <<>>, <<fig>>)

\* PlotlymapV2: lines 42-93
plotlymapv2_page(data, variable_labels, i) ==
    LET variable_options == var_options(data, variable_labels)
    IN  IF variable_options = <<>>
        THEN Rest(<<"widget", "exception">>, "exception", <<>>, <<>>, <<>>)
        ELSE
        LET fig == px("choropleth_mapbox", data,
                      {"id", variable_options[i][1], "mun"}, EmptyDict)
        IN  Rest(<<"widget", "subheader">> \o Shown(fig), How(fig), <<>>, <<>>, <<fig>>)

\* dataStata.dta: not there, there but open() fails, or the Stata encoding
\* of a table: that of the dataset file of the deployment or of another one
StataStates ==
    {Absent,
     File([ok |-> FALSE, data |-> Dataset(0, <<>>)]),
     File([ok |-> TRUE, data |-> Dataset(MaxRows, <<ADM1, ADM3, INDICATOR1>>)]),
     File([ok |-> TRUE, data |-> RemoteData])}

\* lines 192-194: gdf.to_file(geojson_buffer, driver='GeoJSON')
to_geojson(gdf) ==
    [format |-> "GeoJSON", cols |-> gdf.cols, geometry |-> TRUE, n |-> gdf.n]

\* a CSV export that does not drop the geometry column
to_csv_bytes_with_geometry(gdf) ==
    [format |-> "CSV", cols |-> gdf.cols, geometry |-> TRUE, n |-> gdf.n]

\* lines 197-198: gdf.drop(columns=['geometry']).to_csv(index=False)
to_csv_bytes(gdf) ==
    [format |-> "CSV", cols |-> gdf.cols, geometry |-> FALSE, n |-> gdf.n]

\* lines 237-238: the bytes of dataStata.dta as they are on disk
stata_bytes(dta) ==
    [format |-> "Stata", cols |-> dta.cols, geometry |-> FALSE, n |-> dta.n]

\* line 201: definitions.to_csv(index=False)
definitions_csv(definitions) == [format |-> "CSV", rows |-> definitions]

\* a Stata column without its try/except: a file that cannot be opened
\* ends the pass
stata_column_uncaught(stata) ==
    IF stata = Absent
    THEN [elems |-> <<"warning">>, ops |-> <<"exists_stata">>, data |-> <<>>, ok |-> TRUE]
    ELSE IF ~stata[1].ok
    THEN [elems |-> <<"exception">>, ops |-> <<"exists_stata", "read_stata_fail">>,
          data |-> <<>>, ok |-> FALSE]
    ELSE [elems |-> <<"download_stata">>, ops |-> <<"exists_stata", "read_stata">>,
          data |-> <<stata_bytes(stata[1].data)>>, ok |-> TRUE]

\* lines 229-248: the Stata column: a warning when the file is not there or
\* cannot be read, the button otherwise
stata_column(stata) ==
    IF stata = Absent
    THEN [elems |-> <<"warning">>, ops |-> <<"exists_stata">>, data |-> <<>>, ok |-> TRUE]
    ELSE IF ~stata[1].ok
    THEN [elems |-> <<"warning">>, ops |-> <<"exists_stata", "read_stata_fail">>,
          data |-> <<>>, ok |-> TRUE]
    ELSE [elems |-> <<"download_stata">>, ops |-> <<"exists_stata", "read_stata">>,
          data |-> <<stata_bytes(stata[1].data)>>, ok |-> TRUE]

\* Documentation_and_data: lines 183-272, after the loads: the elements, the
\* file operations and the artifacts of the download buttons
documentation_page(gdf, definitions, stata) ==
    LET col3 == stata_column(stata)
        made == [b \in {"geojson", "csv", "definitions"} |->
                    CASE b = "geojson" -> to_geojson(gdf)
                      [] b = "csv" -> to_csv_bytes(gdf)
                      [] OTHER -> definitions_csv(definitions)]
    IN  IF ~col3.ok
        THEN [elems |-> <<"header", "text", "download_geojson", "download_csv">>
                           \o col3.elems,
              how |-> "exception", ops |-> col3.ops,
              downloads |-> [b \in {"geojson", "csv"} |-> made[b]]]
        ELSE [elems |-> <<"header", "text", "download_geojson", "download_csv">>
                           \o col3.elems
                           \o <<"header", "text", "download_definitions", "table", "table">>,
              how |-> "end", ops |-> col3.ops,
              downloads |-> [b \in {"geojson", "csv", "definitions"}
                                    \cup (IF col3.data = <<>> THEN {} ELSE {"stata"}) |->
                                IF b = "stata" THEN col3.data[1] ELSE made[b]]]

\* The files on disk when the process starts: any dataset file beside the
\* label file of the deployment, or any label file beside no dataset file or
\* a dataset with the two grouping columns and one indicator, these without
\* a Stata file; or that dataset and the deployment's labels beside any
\* Stata file.
DeployedLabels ==
    [ok |-> TRUE, hasCols |-> TRUE,
     rows |-> LabelTable([v \in SeqToSet(LabelVars) |->
                            CASE v = INDICATOR1 -> "text"
                              [] v = INDICATOR2 -> "empty"
                              [] OTHER -> "none"])]

StartFiles ==
    (({Absent} \cup {File(d) : d \in Datasets}) \X {File(DeployedLabels)} \X {Absent})
    \cup ({Absent, File(Dataset(MaxRows, <<ADM1, ADM3, INDICATOR1>>))}
            \X ({Absent} \cup {File(l) : l \in LabelFiles}) \X {Absent})
    \cup ({File(Dataset(MaxRows, <<ADM1, ADM3, INDICATOR1>>))}
            \X {File(DeployedLabels)} \X (StataStates \ {Absent}))

Init ==
    /\ \E f \in StartFiles : dataFile = f[1] /\ labelFile = f[2] /\ stataFile = f[3]
    /\ cache = [p \in Pages |-> [data |-> NoEntry, labels |-> NoEntry]]
    /\ map_height = <<>>
    /\ aged = {}
    /\ height_slider = <<>>
    /\ downloads = <<>>
    /\ NoExport
    /\ selected = <<>>
    /\ trend = <<>>
    /\ regress = <<>>
    /\ renders = 0
    /\ page = "none"
    /\ out = <<>>
    /\ io = <<>>
    /\ halt = "end"
    /\ required_cols = <<>>
    /\ missing_cols = <<>>
    /\ chart = <<>>

\* the end of a rendering pass of page p
Pass(p, file, slots, height, elems, ops, how, req, miss, ch) ==
    /\ dataFile' = file
    /\ labelFile' = labelFile
    /\ cache' = [cache EXCEPT ![p] = slots]
    /\ map_height' = height
    /\ aged' = aged
    /\ stataFile' = stataFile
    /\ UNCHANGED <<ExportVars, regress>>
    /\ renders' = renders + 1
    /\ page' = p
    /\ out' = elems
    /\ io' = ops
    /\ halt' = how
    /\ required_cols' = req
    /\ missing_cols' = miss
    /\ chart' = ch

\* The two cached loads that open a page script: the loader of the dataset,
\* then (when that returned) the loader of the labels.
Loads(p, dataBody, labelBody) ==
    LET d == cache_data(cache[p].data, dataBody, dataFile)
        l == cache_data(cache[p].labels, labelBody, Absent)
    IN  IF d.exc # "none"
        THEN [exc |-> d.exc, data |-> d.val, labels |-> EmptyDict, file |-> d.file,
              elems |-> d.elems, ops |-> d.ops,
              slots |-> [data |-> cache_store(cache[p].data, dataBody),
                         labels |-> cache[p].labels]]
        ELSE [exc |-> l.exc, data |-> d.val, labels |-> l.val, file |-> d.file,
              elems |-> d.elems \o l.elems, ops |-> d.ops \o l.ops,
              slots |-> [data |-> cache_store(cache[p].data, dataBody),
                         labels |-> cache_store(cache[p].labels, labelBody)]]

\* a pass that did not reach the height slider of Plotlymap
NoSlider == height_slider' = <<>>

\* a pass that made no download button
NoDownloads == downloads' = <<>>

\* a pass in which no column selectbox returned
NoSelection == selected' = <<>>

\* a pass that did not reach the trendline selectboxes of Scatterfit2
NoTrend == trend' = <<>>

\* st.selectbox(options=range(len(var_options)), index=...) followed by
\* var_options[selected_idx]: the option at the position chosen (positions
\* count from 1 here, the indices of the script from 0).  With no option the
\* selectbox returns None and the subscript raises before a column is had.
selectbox(options, i) ==
    IF options = <<>> THEN <<>>
    ELSE <<[index |-> i - 1, col |-> options[i], options |-> Len(options)]>>

RECURSIVE selectboxes(_, _)
selectboxes(options, idxs) ==
    IF idxs = <<>> \/ options = <<>> THEN <<>>
    ELSE selectbox(options, idxs[1]) \o selectboxes(options, Tail(idxs))

\* the selectboxes of a pass over the numeric columns of data, the operator
\* choosing the positions idxs
Select(data, idxs) == selected' = selectboxes(numeric_cols(data[1]), idxs)

\* the pass of a page whose loads halted it: the error of st.stop() was
\* emitted by the loader, an uncaught exception is shown by the framework
Halted(p, head, ld) ==
    /\ NoSlider /\ NoDownloads /\ NoSelection /\ NoTrend
    /\ Pass(p, ld.file, ld.slots, map_height,
         head \o ld.elems \o (IF ld.exc = "exception" THEN <<"exception">> ELSE <<>>),
         ld.ops, ld.exc, <<>>, <<>>, <<>>)

Done(p, head, ld, r) ==
    /\ NoSlider /\ NoDownloads
    /\ Pass(p, ld.file, ld.slots, map_height, head \o ld.elems \o r.elems, ld.ops,
         r.how, r.req, r.miss, r.ch)

RenderTreemap ==
    /\ renders < MaxRenders
    /\ LET ld == Loads("Treemap", load_geo_data(dataFile), load_labels(labelFile))
       IN  IF ld.exc # "none" THEN Halted("Treemap", <<"title">>, ld)
           ELSE \E ci, si \in Positions(ld.data[1]), hi \in {DefaultPosition(ld.data[1])} :
                  Select(ld.data, <<ci, si, hi>>) /\ NoTrend /\
                  Done("Treemap", <<"title">>, ld,
                       treemap_page(ld.data[1], ld.labels, ci, si, hi))

RenderStripplot ==
    /\ renders < MaxRenders
    /\ LET ld == Loads("Stripplot", load_geo_data(dataFile), load_labels(labelFile))
       IN  IF ld.exc # "none" THEN Halted("Stripplot", <<"title">>, ld)
           ELSE \E xi \in Positions(ld.data[1]) :
                  Select(ld.data, <<xi>>) /\ NoTrend /\
                  Done("Stripplot", <<"title">>, ld,
                       stripplot_page(ld.data[1], ld.labels, xi))

RenderHistogram ==
    /\ renders < MaxRenders
    /\ LET ld == Loads("Histogram", load_geo_data(dataFile), load_labels(labelFile))
       IN  IF ld.exc # "none" THEN Halted("Histogram", <<"title">>, ld)
           ELSE \E xi, ai \in Positions(ld.data[1]) :
                  Select(ld.data, <<xi, ai>>) /\ NoTrend /\
                  Done("Histogram", <<"title">>, ld,
                       histogram_page(ld.data[1], ld.labels, xi, ai))

RenderPlotlymapV3 ==
    /\ renders < MaxRenders
    /\ LET ld == Loads("PlotlymapV3", load_geo_data(dataFile), load_labels(labelFile))
       IN  IF ld.exc # "none" THEN Halted("PlotlymapV3", <<"title">>, ld)
           ELSE \E i \in Positions(ld.data[1]) :
                  Select(ld.data, <<i>>) /\ NoTrend /\
                  Done("PlotlymapV3", <<"title">>, ld,
                       plotlymapv3_page(ld.data[1], ld.labels, i))

RenderScatterfit ==
    /\ renders < MaxRenders
    /\ LET ld == Loads("Scatterfit", load_geo_data(dataFile), load_labels(labelFile))
       IN  IF ld.exc # "none" THEN Halted("Scatterfit", <<"title">>, ld)
           ELSE \E xi, yi \in Positions(ld.data[1]) :
                  Select(ld.data, <<xi, yi>>) /\ NoTrend /\
                  Done("Scatterfit", <<"title">>, ld,
                       scatterfit_page(ld.data[1], ld.labels, xi, yi))

RenderScatterfit2 ==
    /\ renders < MaxRenders
    /\ LET ld == Loads("Scatterfit2", load_geo_data(dataFile), load_labels(labelFile))
       IN  IF ld.exc # "none" THEN Halted("Scatterfit2", <<"title">>, ld)
           ELSE \E t \in {"None", "OLS", "Lowess"}, sc \in {"Overall", "Per Department"} :
                \E stats \in IF trendline_map(t) = <<"ols">>
                              THEN RegressionShown(sc, ld.data[1]) ELSE {<<>>} :
                \E yi \in Positions(ld.data[1]), xi, hi \in {DefaultPosition(ld.data[1])} :
                  Select(ld.data, <<xi, yi, hi>>) /\
                  trend' = (IF numeric_cols(ld.data[1]) = <<>> THEN <<>>
                            ELSE <<[selected_trendline |-> t, selected_scope |-> sc]>>) /\
                  Done("Scatterfit2", <<"title">>, ld,
                       scatterfit2_page(ld.data[1], ld.labels, xi, yi, hi, t, sc, stats))

RenderPlotlymapV2 ==
    /\ renders < MaxRenders
    /\ \E net \in Network(cache["PlotlymapV2"].data, dataFile) :
       LET ld == Loads("PlotlymapV2", load_data_7(dataFile, net),
                       load_data_dictionary_7(labelFile))
       IN  IF ld.exc # "none" THEN Halted("PlotlymapV2", <<"title", "text">>, ld)
           ELSE \E i \in Positions(ld.data[1]) :
                  Select(ld.data, <<i>>) /\ NoTrend /\
                  Done("PlotlymapV2", <<"title", "text">>, ld,
                       plotlymapv2_page(ld.data[1], ld.labels, i))

\* Plotlymap: main, lines 124-140 and 179-180: both loads are made, then a
\* None dataset ends the pass; the height slider's value is kept in the
\* session state.
SliderValues == {400 + 50 * k : k \in 0..12}

\* a session state whose map_height starts at 0
session_height_zero(stored) == IF stored = <<>> THEN 0 ELSE stored[1]

\* a slider that starts from its fixed default in every pass
session_height_fresh(stored) == 600

\* lines 130-131: st.session_state.map_height, set to 600 when the session
\* has none; line 180 gives it to the slider as its value= argument
session_height(stored) == IF stored = <<>> THEN 600 ELSE stored[1]

\* the position the operator moves the slider to
SliderMoves == {400}

RenderPlotlymap ==
    /\ renders < MaxRenders
    /\ \E net \in Network(cache["Plotlymap"].data, dataFile) :
       LET ld == Loads("Plotlymap", load_data_6(dataFile, net),
                       load_data_dictionary_6(labelFile))
           height == session_height(map_height)
       IN  IF ld.data = None
           THEN NoSlider /\ NoDownloads /\ NoSelection /\ NoTrend /\
                Pass("Plotlymap", ld.file, ld.slots, <<height>>,
                     <<"title", "text">> \o ld.elems \o <<"error">>, ld.ops, "return",
                     <<>>, <<>>, <<>>)
           ELSE \E ci \in Positions(ld.data[1]), regions \in BOOLEAN,
                   moved \in {height} \cup (SliderMoves \cap SliderValues) :
                  LET r == plotlymap_page(ld.data[1], ld.labels, ci, regions)
                      used == mark_selected(ld.data[1],
                                  r.ch # <<>> /\ "is_selected" \in r.ch[1].cols)
                  IN  /\ NoDownloads
                      /\ Select(ld.data, <<ci>>) /\ NoTrend
                      /\ height_slider' =
                             IF r.how = "return" THEN <<>>
                             ELSE <<[default |-> height, value |-> moved]>>
                      /\ Pass("Plotlymap", ld.file, cache_copy(ld.slots, used),
                              IF r.how = "return" THEN <<height>> ELSE <<moved>>,
                              <<"title", "text">> \o ld.elems \o r.elems, ld.ops,
                              r.how, r.req, r.miss, r.ch)

\* Documentation_and_data: lines 157-275.  st.stop() is not an Exception and
\* passes the try/except; any other error of the loads is caught and shown.
RenderDocumentation ==
    /\ renders < MaxRenders
    /\ LET head == <<"title", "text", "text", "header", "expander", "expander",
                     "expander", "expander">>
           ld == Loads("Documentation", load_geo_data_99(dataFile),
                       load_definitions(labelFile))
       IN  IF ld.exc = "stop" THEN Halted("Documentation", head, ld)
           ELSE IF ld.exc = "exception"
           THEN NoSlider /\ NoDownloads /\ NoSelection /\ NoTrend /\
                Pass("Documentation", ld.file, ld.slots, map_height,
                     head \o ld.elems \o <<"error">>, ld.ops, "end", <<>>, <<>>, <<>>)
           ELSE LET r == documentation_page(ld.data[1], ld.labels, stataFile)
                IN  /\ NoSlider /\ NoSelection /\ NoTrend
                    /\ downloads' = r.downloads
                    /\ Pass("Documentation", ld.file, ld.slots, map_height,
                            head \o ld.elems \o r.elems, ld.ops \o r.ops, r.how,
                            <<>>, <<>>, <<>>)

\* a new browser session starts with an empty session state
NewSession ==
    /\ renders < MaxRenders
    /\ map_height # <<>>
    /\ map_height' = <<>>
    /\ UNCHANGED <<dataFile, labelFile, cache, renders, page, out, io, halt,
                   required_cols, missing_cols, chart, aged, height_slider,
                   stataFile, downloads, export_gdf, csv_data, reread, selected, trend, regress>>

\* the two cached loaders of a page
Slots == {"data", "labels"}

\* every loader given the ttl of Plotlymap's load_data
ttl_all(p, k) == <<3600>>

\* the ttl= argument of the st.cache_data decorator of the loader behind slot
\* k of page p: only load_data of Plotlymap has one
ttl(p, k) == IF p = "Plotlymap" /\ k = "data" THEN <<3600>> ELSE None

\* its max_entries= argument
max_entries(p, k) == IF p = "Plotlymap" /\ k = "data" THEN <<10>> ELSE None

\* 3600 seconds pass since the entries now stored were made: an entry of a
\* loader with a ttl has expired, the entries of the other loaders stay
Expire ==
    /\ renders < MaxRenders
    /\ \E p \in Pages, k \in Slots : cache[p][k] # NoEntry /\ <<p, k>> \notin aged
    /\ cache' = [p \in Pages |->
                   [k \in Slots |-> IF ttl(p, k) # None THEN NoEntry ELSE cache[p][k]]]
    /\ aged' = {pk \in Pages \X Slots :
                   cache[pk[1]][pk[2]] # NoEntry /\ ttl(pk[1], pk[2]) = None}
    /\ UNCHANGED <<dataFile, labelFile, map_height, renders, page, out, io, halt,
                   required_cols, missing_cols, chart, height_slider,
                   stataFile, downloads, export_gdf, csv_data, reread, selected, trend, regress>>

Next ==
    \/ RenderPlotlymap
    \/ RenderPlotlymapV2
    \/ RenderPlotlymapV3
    \/ RenderScatterfit
    \/ RenderTreemap
    \/ RenderStripplot
    \/ RenderHistogram
    \/ RenderScatterfit2
    \/ RenderDocumentation
    \/ NewSession
    \/ Expire

Spec == Init /\ [][Next]_vars

\* ------------------------------------ the dataset file appears on the disk
\* Plotlymap, line 30: os.path.exists(data_path) is asked of a disk that
\* something else than the page can write to.  The file of the remote
\* source is put at data_path between two passes.
Deploy ==
    /\ renders < MaxRenders
    /\ dataFile = Absent
    /\ dataFile' = File(RemoteData)
    /\ UNCHANGED <<labelFile, cache, map_height, renders, page, out, io, halt,
                   required_cols, missing_cols, chart, aged, height_slider,
                   stataFile, downloads, export_gdf, csv_data, reread, selected, trend, regress>>

\* the Plotlymap page started where the dataset file is not on the disk
InitStale ==
    /\ dataFile = Absent
    /\ labelFile \in {Absent} \cup {File(l) : l \in LabelFiles}
    /\ stataFile = Absent
    /\ cache = [p \in Pages |-> [data |-> NoEntry, labels |-> NoEntry]]
    /\ map_height = <<>>
    /\ aged = {}
    /\ height_slider = <<>>
    /\ downloads = <<>>
    /\ NoExport
    /\ selected = <<>>
    /\ trend = <<>>
    /\ regress = <<>>
    /\ renders = 0
    /\ page = "none"
    /\ out = <<>>
    /\ io = <<>>
    /\ halt = "end"
    /\ required_cols = <<>>
    /\ missing_cols = <<>>
    /\ chart = <<>>

SpecStale == InitStale /\ [][RenderPlotlymap \/ Deploy \/ Expire \/ NewSession]_vars

\* --------------------------------------- the defaults of the selectboxes
\* Treemap lines 54-57 (and the same lines of the other pages) applied to
\* any list of numeric columns: what the column selectboxes return in a
\* pass in which the operator has touched none of them.
MaxOptions == 3
INDICATOR3 == "ln_t400NTLpc2012"
INDICATOR4 == "rank_imds"
DEFAULT_X_VAR == "ln_NTLpc2012"

\* str.lower() on the names of the model
lower(name) ==
    CASE name = "IMDS" -> "imds"
      [] name = "ln_t400NTLpc2012" -> "ln_t400ntlpc2012"
      [] name = "ln_NTLpc2012" -> "ln_ntlpc2012"
      [] OTHER -> name

\* the default indicators of the column selectboxes of a page, in the order
\* of the script; the selectbox of Plotlymap has none (index=0)
Indicators(p) ==
    CASE p = "Treemap" -> <<INDICATOR1, INDICATOR2, INDICATOR4>>
      [] p = "Stripplot" -> <<"imds">>
      [] p = "Histogram" -> <<"imds", "ln_t400NTLpc2012">>
      [] p = "PlotlymapV3" -> <<"imds">>
      [] p = "PlotlymapV2" -> <<"imds">>
      [] p = "Scatterfit" -> <<DEFAULT_X_VAR, "imds">>
      [] p = "Scatterfit2" -> <<INDICATOR3, INDICATOR1, INDICATOR4>>
      [] OTHER -> <<>>

\* a search for the default that compares the names as they are written
RECURSIVE default_idx_exact(_, _, _)
default_idx_exact(options, indicator, i) ==
    IF i > Len(options) THEN 0
    ELSE IF options[i] = indicator THEN i - 1
    ELSE default_idx_exact(options, indicator, i + 1)

\* next((i for i, (col, _) in enumerate(var_options)
\*       if col.lower() == INDICATOR.lower()), 0), the scan being at position i
RECURSIVE default_idx(_, _, _)
default_idx(options, indicator, i) ==
    IF i > Len(options) THEN 0
    ELSE IF lower(options[i]) = lower(indicator) THEN i - 1
    ELSE default_idx(options, indicator, i + 1)

\* the positions the selectboxes of page p show before the operator acts
default_positions(p, options) ==
    IF p = "Plotlymap" THEN <<1>>
    ELSE [k \in 1..Len(Indicators(p)) |-> default_idx(options, Indicators(p)[k], 1) + 1]

\* the column names of the datasets given to the defaults: an indicator in
\* two spellings, two other indicators and a column that is not numeric
DefaultNames == {"imds", "IMDS", "pop2020", "ln_t400NTLpc2012", ADM1}

RECURSIVE Arrangements(_, _)
Arrangements(names, k) ==
    IF k = 0 THEN {<<>>}
    ELSE Arrangements(names, k - 1)
         \cup {Append(a, c) : a \in {b \in Arrangements(names, k - 1) : Len(b) = k - 1},
                              c \in names}

InitDefault ==
    /\ dataFile \in {File([n |-> MaxRows, cols |-> cols, num |-> SeqToSet(cols) \ {ADM1}]) :
                        cols \in {a \in Arrangements(DefaultNames, MaxOptions) :
                                     Cardinality(SeqToSet(a)) = Len(a)}}
    /\ labelFile = Absent
    /\ stataFile = Absent
    /\ cache = [p \in Pages |-> [data |-> NoEntry, labels |-> NoEntry]]
    /\ map_height = <<>>
    /\ aged = {}
    /\ height_slider = <<>>
    /\ downloads = <<>>
    /\ NoExport
    /\ selected = <<>>
    /\ trend = <<>>
    /\ regress = <<>>
    /\ renders = 0
    /\ page = "none"
    /\ out = <<>>
    /\ io = <<>>
    /\ halt = "end"
    /\ required_cols = <<>>
    /\ missing_cols = <<>>
    /\ chart = <<>>

\* the selectboxes of a page in a pass without an operator's choice
ShowDefaults ==
    /\ page = "none"
    /\ \E p \in Pages \ {"Documentation"} :
          /\ page' = p
          /\ selected' = selectboxes(numeric_cols(dataFile[1]),
                                     default_positions(p, numeric_cols(dataFile[1])))
    /\ UNCHANGED <<dataFile, labelFile, cache, map_height, renders, out, io, halt,
                   required_cols, missing_cols, chart, aged, height_slider,
                   stataFile, downloads, export_gdf, csv_data, reread, trend, regress>>

SpecDefault == InitDefault /\ [][ShowDefaults]_vars

\* ---------------------------------------------- validation on any request
\* Lines 85-93 of Treemap (111-120 of Scatterfit2) applied to any list of
\* requested names: the names reported, and the halt or the pass going on
\* to the chart section.
MaxRequired == 3
RequestNames == SeqToSet(AllColumns) \cup {"nonexistent_col"}

RECURSIVE Lists(_)
Lists(k) ==
    IF k = 0 THEN {<<>>}
    ELSE Lists(k - 1) \cup {Append(l, c) : l \in {m \in Lists(k - 1) : Len(m) = k - 1},
                                           c \in RequestNames}

\* a validation that takes an empty list of missing names for a failure
validate_required_negated(required, data) ==
    LET miss == missing(required, data.cols)
    IN  IF miss = <<>> THEN Rest(<<"error">>, "stop", required, miss, <<>>)
        ELSE Rest(<<"subheader">>, "end", required, miss, <<>>)

\* if missing_cols: st.error(...); st.stop()  --  else the chart section
validate_required(required, data) ==
    LET miss == missing(required, data.cols)
    IN  IF miss # <<>> THEN Rest(<<"error">>, "stop", required, miss, <<>>)
        ELSE Rest(<<"subheader">>, "end", required, miss, <<>>)

InitValidate ==
    /\ dataFile \in {File(Dataset(MaxRows, Restrict(AllColumns, keep))) :
                        keep \in SUBSET SeqToSet(AllColumns)}
    /\ labelFile = Absent
    /\ stataFile = Absent
    /\ cache = [p \in Pages |-> [data |-> NoEntry, labels |-> NoEntry]]
    /\ map_height = <<>>
    /\ aged = {}
    /\ height_slider = <<>>
    /\ downloads = <<>>
    /\ NoExport
    /\ selected = <<>>
    /\ trend = <<>>
    /\ regress = <<>>
    /\ renders = 0
    /\ page = "none"
    /\ out = <<>>
    /\ io = <<>>
    /\ halt = "end"
    /\ required_cols \in Lists(MaxRequired)
    /\ missing_cols = <<>>
    /\ chart = <<>>

Validate ==
    /\ page = "none"
    /\ LET r == validate_required(required_cols, load_geo_data(dataFile).val[1])
       IN  /\ page' = "validate"
           /\ out' = r.elems
           /\ halt' = r.how
           /\ missing_cols' = r.miss
    /\ UNCHANGED <<dataFile, labelFile, cache, map_height, renders, io,
                   required_cols, chart, aged, height_slider, stataFile, downloads,
                   export_gdf, csv_data, reread, selected, trend, regress>>

SpecValidate == InitValidate /\ [][Validate]_vars

\* ------------------------------------------------- CSV export and re-read
\* Lines 196-198 of Documentation applied to a Feature Collection with its
\* cell values, and pd.read_csv applied to the text they make.
MaxCsvRows == 2

\* A cell of a frame: an integer, a float, a text (a sequence of characters),
\* a geometry, or NaN.
IntCell(n) == <<"int", n>>
FloatCell(n) == <<"float", n>>
StrCell(t) == <<"str", t>>
GeometryCell == <<"geometry">>

IntValues == {0, 7, 12}
Texts == {<<>>, <<"0", "7">>, <<"a">>, <<"a", "7">>, <<"N", "A">>}

\* the cells of a column of n rows: an object column holds texts and
\* missing values, an int64 column holds integers
ObjectCells(n) == [1..n -> {StrCell(t) : t \in Texts} \cup {NaN}]
IntegerCells(n) == [1..n -> {IntCell(v) : v \in IntValues}]

\* a GeoDataFrame of n rows: the object column a (the municipality), the
\* int64 column b (an indicator) and the geometry column
Frame(n, a, b) ==
    [cols |-> <<ADM3, INDICATOR1, "geometry">>, n |-> n,
     cells |-> [c \in {ADM3, INDICATOR1, "geometry"} |->
                   CASE c = ADM3 -> a [] c = INDICATOR1 -> b
                     [] OTHER -> [i \in 1..n |-> GeometryCell]]]

\* gdf.drop(columns=['geometry'])
drop_geometry(df) ==
    LET keep == Restrict(df.cols, SeqToSet(df.cols) \ {"geometry"})
    IN  [cols |-> keep, n |-> df.n, cells |-> [c \in SeqToSet(keep) |-> df.cells[c]]]

\* str(i) of a non-negative integer, as characters
RECURSIVE str_chars(_)
str_chars(i) ==
    IF i < 10 THEN <<Digit(i)>> ELSE Append(str_chars(i \div 10), Digit(i % 10))

\* the field to_csv writes for a cell: na_rep is the empty field
csv_field(cell) ==
    CASE cell = NaN -> <<>>
      [] cell[1] = "int" -> str_chars(cell[2])
      [] cell[1] = "float" -> str_chars(cell[2]) \o <<".", "0">>
      [] cell[1] = "str" -> cell[2]
      [] OTHER -> <<"P", "O", "L", "Y", "G", "O", "N">>

\* df.to_csv(index=True): the index is written as a first column with an
\* empty header
to_csv_index(df) ==
    [header |-> <<"">> \o df.cols,
     rows |-> [i \in 1..df.n |->
                 <<str_chars(i - 1)>> \o
                 [j \in 1..Len(df.cols) |-> csv_field(df.cells[df.cols[j]][i])]]]

\* df.to_csv(index=False): a header line of the column names, then one line
\* for each row in row order, one field for each column in column order (no
\* text of the model holds a delimiter, so no field is quoted)
to_csv(df) ==
    [header |-> df.cols,
     rows |-> [i \in 1..df.n |->
                 [j \in 1..Len(df.cols) |-> csv_field(df.cells[df.cols[j]][i])]]]

\* the fields read_csv takes for a missing value (those of its defaults the
\* characters of the model can spell)
na_values == {<<>>, <<"N", "A">>}
IsDigit(ch) == \E d \in 0..9 : Digit(d) = ch
IsInteger(t) == t # <<>> /\ \A k \in 1..Len(t) : IsDigit(t[k])

RECURSIVE parse_int(_)
parse_int(t) ==
    IF t = <<>> THEN 0
    ELSE parse_int(Front(t)) * 10 + (CHOOSE d \in 0..9 : Digit(d) = t[Len(t)])

\* read_csv's type inference on the fields of one column: all integers make
\* an int64 column, integers and missing values a float64 column, anything
\* else an object column of the texts as written
infer_column(fields) ==
    LET rows == DOMAIN fields
        present == {i \in rows : fields[i] \notin na_values}
    IN  IF \A i \in present : IsInteger(fields[i])
        THEN [i \in rows |->
                IF i \notin present THEN NaN
                ELSE IF present = rows THEN IntCell(parse_int(fields[i]))
                ELSE FloatCell(parse_int(fields[i]))]
        ELSE [i \in rows |-> IF i \in present THEN StrCell(fields[i]) ELSE NaN]

\* pd.read_csv(text): the header names the columns (an empty name becomes
\* "Unnamed: j"), every line is a row, every column is typed by inference
read_csv(text) ==
    LET width == Len(text.header)
        name(j) == IF text.header[j] = "" THEN "Unnamed: " \o astype_str(j - 1)
                   ELSE text.header[j]
        names == [j \in 1..width |-> name(j)]
    IN  [cols |-> names, n |-> Len(text.rows),
         cells |-> [c \in SeqToSet(names) |->
                      LET j == CHOOSE k \in 1..width : names[k] = c
                      IN  infer_column([i \in 1..Len(text.rows) |-> text.rows[i][j]])]]

InitCsv ==
    /\ \E n \in 1..MaxCsvRows :
          \E a \in ObjectCells(n), b \in IntegerCells(n) : export_gdf = <<Frame(n, a, b)>>
    /\ csv_data = <<>>
    /\ reread = <<>>
    /\ selected = <<>>
    /\ trend = <<>>
    /\ regress = <<>>
    /\ dataFile = Absent
    /\ labelFile = Absent
    /\ stataFile = Absent
    /\ cache = [p \in Pages |-> [data |-> NoEntry, labels |-> NoEntry]]
    /\ map_height = <<>>
    /\ aged = {}
    /\ height_slider = <<>>
    /\ downloads = <<>>
    /\ renders = 0
    /\ page = "none"
    /\ out = <<>>
    /\ io = <<>>
    /\ halt = "end"
    /\ required_cols = <<>>
    /\ missing_cols = <<>>
    /\ chart = <<>>

\* csv_data = gdf.drop(columns=['geometry']).to_csv(index=False)
ExportCsv ==
    /\ csv_data = <<>>
    /\ csv_data' = <<to_csv(drop_geometry(export_gdf[1]))>>
    /\ UNCHANGED <<export_gdf, reread, dataFile, labelFile, cache, map_height, renders,
                   page, out, io, halt, required_cols, missing_cols, chart, aged,
                   height_slider, stataFile, downloads, selected, trend, regress>>

\* the downloaded text is read again
ReadCsv ==
    /\ csv_data # <<>>
    /\ reread = <<>>
    /\ reread' = <<read_csv(csv_data[1])>>
    /\ UNCHANGED <<export_gdf, csv_data, dataFile, labelFile, cache, map_height, renders,
                   page, out, io, halt, required_cols, missing_cols, chart, aged,
                   height_slider, stataFile, downloads, selected, trend, regress>>

SpecCsv == InitCsv /\ [][ExportCsv \/ ReadCsv]_vars

\* ------------------------------------- the regression block on given rows
\* Scatterfit2, lines 179-257, on the rows themselves.  A row has its
\* department and the cells of the two selected columns; a cell is NaN or a
\* number.
MaxPoints == 4
Departments == {"La Paz", "Oruro"}
Points ==
    {[dep |-> d, x |-> c[1], y |-> c[2]] :
        d \in Departments,
        c \in {<<<<1>>, <<1>>>>, <<<<2>>, <<1>>>>, <<NaN, <<1>>>>, <<<<1>>, NaN>>}}

\* a dropna() that drops nothing
dropna_keeps_all(rows) == rows

\* data[[selected_x_col, selected_y_col]].dropna(): the rows that have a
\* value in both columns
dropna(rows) ==
    LET both(r) == r.x # NaN /\ r.y # NaN
    IN  SelectSeq(rows, both)

\* data[ADM1].unique(): the departments in the order they first appear
RECURSIVE unique(_)
unique(rows) ==
    IF rows = <<>> THEN <<>>
    ELSE LET u == unique(SubSeq(rows, 1, Len(rows) - 1))
             d == rows[Len(rows)].dep
         IN  IF \E i \in 1..Len(u) : u[i] = d THEN u ELSE Append(u, d)

\* data[data[ADM1] == dept][[ADM1, selected_x_col, selected_y_col]].dropna()
dept_data(rows, dept) ==
    LET of(r) == r.dep = dept
    IN  dropna(SelectSeq(rows, of))

\* what linregress is given: the number of valid rows, and whether all their
\* x values are identical
group(valid_data) ==
    [rows |-> Len(valid_data),
     flat |-> valid_data # <<>>
              /\ \A i \in 1..Len(valid_data) : valid_data[i].x = valid_data[1].x]

\* the groups of rows the block fits: all valid rows in the overall scope,
\* the valid rows of each department otherwise
fitted(scope, rows) ==
    IF scope = "Overall" THEN <<group(dropna(rows))>>
    ELSE [i \in 1..Len(unique(rows)) |-> group(dept_data(rows, unique(rows)[i]))]

\* the Department column of the table st.dataframe shows: the departments
\* appended to stats_data, when the loop ended without an exception
stats_df(scope, rows, scipy) ==
    LET enough(dept) == Len(dept_data(rows, dept)) > 2
    IN  IF "table" \in {regression(scope, fitted(scope, rows), scipy)[i] :
                          i \in 1..Len(regression(scope, fitted(scope, rows), scipy))}
        THEN SelectSeq(unique(rows), enough)
        ELSE <<>>

InitRegression ==
    /\ dataFile = Absent /\ labelFile = Absent /\ stataFile = Absent
    /\ cache = [p \in Pages |-> [data |-> NoEntry, labels |-> NoEntry]]
    /\ map_height = <<>>
    /\ aged = {}
    /\ height_slider = <<>>
    /\ downloads = <<>>
    /\ NoExport
    /\ selected = <<>>
    /\ trend = <<>>
    /\ \E n \in 0..MaxPoints :
          \E rows \in [1..n -> Points] :
          \E scope \in {"Overall", "Per Department"}, scipy \in Scipy :
             regress = <<[data |-> rows, scope |-> scope, scipy |-> scipy,
                          shown |-> <<>>, stats_df |-> <<>>, done |-> FALSE]>>
    /\ renders = 0
    /\ page = "none"
    /\ out = <<>>
    /\ io = <<>>
    /\ halt = "end"
    /\ required_cols = <<>>
    /\ missing_cols = <<>>
    /\ chart = <<>>

\* the block runs: if trendline == 'ols': try: ... except Exception
Regress ==
    /\ regress # <<>>
    /\ ~regress[1].done
    /\ LET r == regress[1]
       IN  regress' = <<[r EXCEPT
                           !.shown = regression(r.scope, fitted(r.scope, r.data), r.scipy),
                           !.stats_df = stats_df(r.scope, r.data, r.scipy),
                           !.done = TRUE]>>
    /\ UNCHANGED <<dataFile, labelFile, cache, map_height, renders, page, out, io, halt,
                   required_cols, missing_cols, chart, aged, height_slider,
                   stataFile, downloads, export_gdf, csv_data, reread, selected, trend>>

SpecRegression == InitRegression /\ [][Regress]_vars

\* ================================================================ claims
Has(seq, e) == e \in SeqToSet(seq)
Fetched(ops) == Has(ops, "fetch_ok") \/ Has(ops, "fetch_fail")
Wrote(ops) == Has(ops, "write_ok") \/ Has(ops, "write_fail")
FallbackPages == {"Plotlymap", "PlotlymapV2"}
\* a step that is a rendering pass in which the body of the dataset loader ran
LoaderRan == renders' = renders + 1 /\ Has(io', "exists_data")
\* the slot of page p holds the Feature Collection of dataset file f
HoldsDataOf(slot, f) ==
    /\ slot # NoEntry
    /\ slot[1].val # None
    /\ slot[1].val[1].n = f[1].n
    /\ Restrict(slot[1].val[1].cols, SeqToSet(f[1].cols)) = f[1].cols

\* a present file is read locally, with no fetch and no write
ReadsLocal ==
    dataFile # Absent =>
        /\ Has(io', "read_local") /\ ~Fetched(io') /\ ~Wrote(io')
        /\ dataFile' = dataFile
        /\ HoldsDataOf(cache'[page'].data, dataFile)

\* an absent file is fetched; a fetch that succeeds is saved; when both
\* succeed the file is there afterwards and the loader returns its data
FetchesAndSaves ==
    /\ Fetched(io') /\ ~Has(io', "read_local")
    /\ Has(io', "fetch_ok") => Wrote(io')
    /\ Has(io', "write_ok") =>
          /\ dataFile' = File(RemoteData)
          /\ HoldsDataOf(cache'[page'].data, dataFile')
    /\ ~Has(io', "write_ok") => dataFile' = Absent

\* C1 as claimed: every dataset loader reads a present file locally and
\* fetches, saves and goes on with an absent one.
C1_AsClaimed ==
    [][LoaderRan => /\ ReadsLocal
                    /\ dataFile = Absent => FetchesAndSaves]_vars

\* C1 amended: every dataset loader reads a present file locally with no
\* fetch; with the file absent the loaders of Plotlymap and PlotlymapV2
\* fetch it, save a local copy and go on with the data, so that the file is
\* there for a later load, while the loaders of the other pages make no
\* fetch, write nothing, and halt the pass with an error.
C1_LocalElseFallback ==
    [][LoaderRan =>
         /\ ReadsLocal
         /\ (dataFile = Absent /\ page' \in FallbackPages) => FetchesAndSaves
         /\ (dataFile = Absent /\ page' \notin FallbackPages) =>
               /\ ~Fetched(io') /\ ~Wrote(io') /\ ~Has(io', "read_local")
               /\ dataFile' = Absent
               /\ halt' = "stop"
               /\ out'[Len(out')] = "error"
               /\ cache'[page'].data = NoEntry]_vars

\* a pass fetched and saved the file, and it is on disk
C1_Witness == Has(io, "write_ok") /\ dataFile = File(RemoteData)

Numerals == <<"0", "1", "2", "3", "4", "5", "6", "7", "8", "9", "10", "11",
              "12", "13", "14", "15">>

HasIds(fc) ==
    /\ "id" \in SeqToSet(fc.cols)
    /\ Len(fc.id) = fc.n
    /\ \A i \in 1..fc.n : fc.id[i] = Numerals[i]

Loaded(p) == cache[p].data # NoEntry /\ cache[p].data[1].val # None

\* C3 as claimed: the Feature Collection every dataset loader returns has
\* the identifiers "0".."n-1" in row order.
C3_AsClaimed ==
    \A p \in Pages : Loaded(p) => HasIds(cache[p].data[1].val[1])

\* C3 amended: the Feature Collection returned by the dataset loader of
\* every chart page has the identifiers "0".."n-1" in row order; the loader
\* of the Documentation page returns the file's columns with no identifier
\* column.
C3_IdsInRowOrder ==
    \A p \in Pages : Loaded(p) =>
        LET fc == cache[p].data[1].val[1]
        IN  IF p = "Documentation"
            THEN fc.cols = dataFile[1].cols /\ fc.id = <<>>
            ELSE HasIds(fc) /\ fc.n = dataFile[1].n

\* a chart page loaded a file of more than ten records
C3_Witness ==
    \E p \in Pages \ {"Documentation"} : Loaded(p) /\ cache[p].data[1].val[1].n > 10

\* the Feature Collection and the labels the last pass worked on
PageData == cache[page].data[1].val[1]
PageLabels == cache[page].labels[1].val
Columns == SeqToSet(PageData.cols)
AbsentRequested == {c \in SeqToSet(required_cols) : c \notin Columns}
Validated == page \in Pages /\ required_cols # <<>>
ListPages == {"Treemap", "Scatterfit2"}

\* C4 as claimed: a validation with an absent requested name reports
\* exactly the absent requested names.
C4_AsClaimed ==
    (Validated /\ AbsentRequested # {}) =>
        /\ halt = "stop"
        /\ SeqToSet(missing_cols) = AbsentRequested

\* C4 amended: on Treemap and Scatterfit2 a validation with an absent
\* requested name reports exactly the absent requested names, in request
\* order; on Stripplot and Histogram, which check dep and then mun, it
\* reports only the first of the two that is absent.
C4_ExactOrFirst ==
    (Validated /\ AbsentRequested # {}) =>
        /\ halt = "stop"
        /\ out[Len(out)] = "error"
        /\ chart = <<>>
        /\ page \in ListPages =>
              /\ SeqToSet(missing_cols) = AbsentRequested
              /\ missing_cols = Restrict(required_cols, AbsentRequested)
        /\ page \notin ListPages =>
              /\ Len(missing_cols) = 1
              /\ missing_cols[1] \in AbsentRequested
              /\ missing_cols[1] = ADM3 => ADM1 \in Columns

\* Treemap found both grouping columns absent and reported both
C4_Witness == page = "Treemap" /\ missing_cols = <<ADM1, ADM3>> /\ halt = "stop"

\* C5: no charting call is made with a column that is absent from the
\* Feature Collection it is given.
C5_ChartColumnsPresent ==
    chart # <<>> => /\ chart[1].ok
                    /\ chart[1].cols \subseteq Columns \cup {"is_selected"}

\* C6: a validation in which every requested name is present reports
\* nothing and lets the pass go on without an error; the empty request
\* always does.
C6_AllPresentSucceeds ==
    (page = "validate" /\ \A i \in 1..Len(required_cols) :
                             required_cols[i] \in SeqToSet(dataFile[1].cols)) =>
        /\ missing_cols = <<>>
        /\ halt = "end"
        /\ ~Has(out, "error")

\* the empty request, and a request of three present names, were validated
C6_Witness ==
    /\ page = "validate" /\ halt = "end"
    /\ \/ required_cols = <<>>
       \/ required_cols = <<ADM1, ADM3, INDICATOR1>>

\* the pages that load a Label Dictionary
DictPages == Pages \ {"Documentation"}
LabelsLoaded(p) == cache[p].labels # NoEntry
Readable == labelFile # Absent /\ labelFile[1].ok /\ labelFile[1].hasCols

\* C7: every row of the label file with an empty Label maps its Variable to
\* the Variable itself in the loaded dictionary, every other row to its
\* Label.
C7_IdentityFallback ==
    \A p \in DictPages : (LabelsLoaded(p) /\ Readable) =>
        \A i \in 1..Len(labelFile[1].rows) :
            LET row == labelFile[1].rows[i]
                d == cache[p].labels[1].val
            IN  /\ row[1] \in DOMAIN d
                /\ d[row[1]] = IF row[2] = NaN THEN Text(row[1]) ELSE row[2]

\* C8: a read error of an existing label file is caught: a warning is
\* shown, the dictionary is empty, and a pass whose dataset loaded goes on
\* to its chart.
C8_ReadErrorDegrades ==
    (page \in DictPages /\ Has(io, "read_labels_fail")) =>
        /\ Has(out, "warning")
        /\ LabelsLoaded(page) /\ PageLabels = EmptyDict
        /\ cache[page].labels[1].elems = <<"warning">>
        /\ Loaded(page) => (halt = "end" /\ chart # <<>>)

\* C9 as claimed: with no label file the loader returns an empty dictionary
\* and no page's pass is halted by it.
C9_AsClaimed ==
    (page \in Pages /\ labelFile = Absent /\ Has(io, "exists_labels")) =>
        /\ LabelsLoaded(page)
        /\ Loaded(page) => halt = "end"

\* C9 amended: with no label file the label loader of every chart page
\* returns an empty dictionary and the pass goes on to the chart; on the
\* Documentation page load_definitions shows an error and halts the pass.
C9_MissingLabels ==
    (page \in Pages /\ labelFile = Absent /\ Has(io, "exists_labels")) =>
        IF page = "Documentation"
        THEN halt = "stop" /\ out[Len(out)] = "error" /\ ~LabelsLoaded(page)
        ELSE /\ LabelsLoaded(page) /\ PageLabels = EmptyDict
             /\ cache[page].labels[1].elems = <<>>
             /\ Loaded(page) => (halt = "end" /\ chart # <<>>)

\* a chart page drew its chart with no label file on disk
C9_Witness ==
    /\ page = "Treemap" /\ labelFile = Absent /\ Has(io, "exists_labels")
    /\ chart # <<>> /\ halt = "end"

\* C10 as claimed: every attribute a chart labels has the label of the
\* dictionary, or its own name when the dictionary has no entry for it.
C10_AsClaimed ==
    (chart # <<>>) =>
        \A c \in DOMAIN chart[1].labels \cap SeqToSet(AllColumns) :
            chart[1].labels[c] = IF c \in DOMAIN PageLabels THEN PageLabels[c]
                                 ELSE Text(c)

\* what a page shows for an attribute without a dictionary entry
DefaultLabel(p, c) ==
    IF c = "is_selected" THEN Text("Selected Region")
    ELSE IF c = ADM1 /\ p \in {"Treemap", "Stripplot", "Histogram", "Scatterfit2"}
    THEN Text("Department")
    ELSE IF c = ADM3 /\ p \in {"Treemap", "Scatterfit2"} THEN Text("Municipality")
    ELSE Text(c)

\* C10 amended: every attribute a chart labels has one label, the one of
\* the dictionary when it has an entry; without an entry an indicator (and
\* mun on Plotlymap) is labelled with its own name, while dep and mun in the
\* data_dict of Treemap, Stripplot, Histogram and Scatterfit2 are labelled
\* "Department" and "Municipality" and the is-selected marker of Plotlymap
\* "Selected Region".
C10_ResolvedLabels ==
    (chart # <<>>) =>
        \A c \in DOMAIN chart[1].labels :
            chart[1].labels[c] = IF c \in DOMAIN PageLabels /\ c # "is_selected"
                                 THEN PageLabels[c]
                                 ELSE DefaultLabel(page, c)

\* Treemap labelled an indicator from the dictionary and dep by default
C10_Witness ==
    /\ page = "Treemap" /\ chart # <<>>
    /\ INDICATOR1 \in DOMAIN PageLabels
    /\ chart[1].labels[INDICATOR1] = Text("Municipal Development Index")
    /\ ADM1 \notin DOMAIN PageLabels
    /\ chart[1].labels[ADM1] = Text("Department")

\* a step that is a rendering pass
RenderStep == renders' = renders + 1

C12_AsClaimed == \A p \in Pages, k \in Slots : <<p, k>> \notin aged

\* C12 amended: only load_data of Plotlymap is time- and capacity-bounded:
\* its entry is gone once the interval has passed and its entries never
\* exceed max_entries; the entries of every other loader are never dropped,
\* and every loader, called with one argument combination only, holds at
\* most one entry.
C12_OnlyPlotlymapBounded ==
    [][/\ <<"Plotlymap", "data">> \notin aged'
       /\ aged' # aged => cache'["Plotlymap"].data = NoEntry
       /\ \A p \in Pages, k \in Slots :
             /\ Len(cache'[p][k]) <= 1
             /\ max_entries(p, k) # None => Len(cache'[p][k]) <= max_entries(p, k)[1]
             /\ (<<p, k>> # <<"Plotlymap", "data">> /\ cache[p][k] # NoEntry) =>
                   cache'[p][k] = cache[p][k]]_vars

\* the interval passed with both entries of Plotlymap stored: the dataset
\* entry is gone, the label entry is still there
C12_Witness ==
    /\ <<"Plotlymap", "labels">> \in aged
    /\ cache["Plotlymap"].labels # NoEntry
    /\ cache["Plotlymap"].data = NoEntry


\* what the loader of page p returns for dataset file f
LoaderResult(p, f) ==
    IF p = "Documentation" THEN read_file(f[1]) ELSE assign_id(read_file(f[1]))

\* C13: the Feature Collection stored for any page is, after any sequence of
\* renders, the one its loader made from the file: it never carries the
\* is-selected marker column, nor any other change, of an earlier render.
C13_MarkerIsTransient ==
    \A p \in Pages : Loaded(p) =>
        /\ "is_selected" \notin SeqToSet(cache[p].data[1].val[1].cols)
        /\ cache[p].data[1].val[1] = LoaderResult(p, dataFile)

\* a render of Plotlymap served from the cache highlighted regions: its
\* chart was given the marker column and the stored collection has none
C13_Witness ==
    /\ page = "Plotlymap" /\ renders = 2 /\ ~Has(io, "exists_data")
    /\ chart # <<>> /\ "is_selected" \in chart[1].cols
    /\ Loaded(page) /\ "is_selected" \notin Columns


\* C14 as claimed: every render creates the selection from the widget
\* defaults: the height slider always starts from its fixed default, 600,
\* whatever was chosen in an earlier render.
C14_AsClaimed == height_slider # <<>> => height_slider[1].default = 600

\* C14 amended: only Plotlymap keeps a chosen value: its map height is
\* stored in the session state and is the slider's starting value in the
\* next render of the same session (600 in a session that has none), and
\* the stored height is what the slider returned; the renders of the other
\* pages read and change nothing of it, and a new session starts with no
\* stored height.
C14_HeightCarriedInSession ==
    [][/\ (RenderStep /\ height_slider' # <<>>) =>
             /\ page' = "Plotlymap"
             /\ height_slider'[1].default =
                    (IF map_height = <<>> THEN 600 ELSE map_height[1])
             /\ height_slider'[1].value \in SliderValues
             /\ map_height' = <<height_slider'[1].value>>
       /\ (RenderStep /\ page' # "Plotlymap") =>
             map_height' = map_height /\ height_slider' = <<>>
       /\ (~RenderStep /\ map_height' # map_height) => map_height' = <<>>]_vars

\* a render of Plotlymap started its slider from 400, chosen in an earlier
\* render, and the operator left it there
C14_Witness ==
    /\ page = "Plotlymap" /\ renders = 2 /\ height_slider # <<>>
    /\ height_slider[1].default = 400 /\ height_slider[1].value = 400


\* the number of elements of seq that are in S
RECURSIVE Count(_, _)
Count(seq, S) ==
    IF seq = <<>> THEN 0
    ELSE (IF seq[1] \in S THEN 1 ELSE 0) + Count(Tail(seq), S)

\* C15: a load makes at most one remote read; a remote read that failed is
\* the last thing the loader did with the dataset: no second read, no local
\* read and no save follow it.
C15_SingleFetchAttempt ==
    /\ Count(io, {"fetch_ok", "fetch_fail"}) <= 1
    /\ Count(io, {"exists_data"}) <= 1
    /\ Has(io, "fetch_fail") =>
          /\ ~Has(io, "read_local") /\ ~Wrote(io)
          /\ SubSeq(io, 1, 2) = <<"exists_data", "fetch_fail">>
          /\ Len(io) > 2 => io[3] = "exists_labels"

\* the remote read of PlotlymapV2's loader failed and ended the pass
C15_Witness ==
    /\ page = "PlotlymapV2" /\ halt = "exception"
    /\ io = <<"exists_data", "fetch_fail">>


\* the elements a pass emitted after its chart
RECURSIVE AfterChart(_)
AfterChart(seq) ==
    IF seq = <<>> THEN <<>>
    ELSE IF seq[1] = "chart" THEN Tail(seq) ELSE AfterChart(Tail(seq))

\* C16: a render of Scatterfit2 that drew its scatter chart always runs to
\* its end, with the chart and its description shown; when the regression
\* statistics fail, the failure is shown as a warning, the last element of
\* the pass, and neither the overall statistics nor the table of the
\* departments is shown.
C16_RegressionFailureNotFatal ==
    (page = "Scatterfit2" /\ chart # <<>> /\ chart[1].ok) =>
        /\ halt = "end"
        /\ Has(out, "chart") /\ ~Has(out, "exception")
        /\ SubSeq(AfterChart(out), 1, 2) = <<"info", "text">>
        /\ Has(AfterChart(out), "warning") =>
              /\ out[Len(out)] = "warning"
              /\ Count(AfterChart(out), {"warning"}) = 1
              /\ ~Has(out, "stats") /\ ~Has(out, "table")

\* the regression of a department failed after the heading of the
\* per-department statistics was shown
C16_Witness ==
    /\ page = "Scatterfit2" /\ chart # <<>> /\ chart[1].ok /\ halt = "end"
    /\ AfterChart(out) = <<"info", "text", "text", "warning">>


\* the pass looked for the Stata file and did not get its bytes
StataUnavailable ==
    page = "Documentation" /\ Has(io, "exists_stata") /\ ~Has(io, "read_stata")

\* C17: when the Stata file is not there or cannot be read, the pass of the
\* download page shows one warning, makes no Stata button, still makes the
\* GeoJSON, CSV and definitions buttons and the two previews, and runs to
\* its end.
C17_StataOptional ==
    StataUnavailable =>
        /\ halt = "end"
        /\ Count(out, {"warning"}) = 1
        /\ ~Has(out, "download_stata") /\ ~Has(out, "error") /\ ~Has(out, "exception")
        /\ Has(out, "download_geojson") /\ Has(out, "download_csv")
        /\ Has(out, "download_definitions")
        /\ Count(out, {"table"}) = 2
        /\ DOMAIN downloads = {"geojson", "csv", "definitions"}

\* the Stata file was there and could not be read
C17_Witness ==
    /\ StataUnavailable /\ Has(io, "read_stata_fail") /\ halt = "end"
    /\ out[Len(out)] = "table"

\* the download buttons were made
Offered == page = "Documentation" /\ halt = "end" /\ DOMAIN downloads # {}

\* the GeoJSON, CSV and definitions artifacts are what the claim says
EncodesLoaded ==
    /\ downloads["geojson"].format = "GeoJSON" /\ downloads["geojson"].geometry
    /\ downloads["geojson"].cols = PageData.cols /\ downloads["geojson"].n = PageData.n
    /\ downloads["csv"].format = "CSV" /\ ~downloads["csv"].geometry
    /\ downloads["csv"].cols = PageData.cols /\ downloads["csv"].n = PageData.n
    /\ downloads["definitions"].format = "CSV"
    /\ downloads["definitions"].rows = PageLabels

\* C20 as claimed: the GeoJSON artifact keeps the geometry and every
\* attribute column, the CSV artifact has every attribute column and no
\* geometry, the definitions artifact is the definitions table, and the
\* Stata artifact encodes the loaded dataset without geometry.
C20_AsClaimed ==
    Offered =>
        /\ EncodesLoaded
        /\ "stata" \in DOMAIN downloads =>
              /\ ~downloads["stata"].geometry
              /\ downloads["stata"].cols = PageData.cols
              /\ downloads["stata"].n = PageData.n

\* C20 amended: the same for the GeoJSON, CSV and definitions artifacts; the
\* Stata artifact is the content of the file dataStata.dta as it is on
\* disk, whatever table it encodes, and is offered exactly when that file
\* can be read.
C20_StataServedAsIs ==
    Offered =>
        /\ EncodesLoaded
        /\ "stata" \in DOMAIN downloads <=> (stataFile # Absent /\ stataFile[1].ok)
        /\ "stata" \in DOMAIN downloads =>
              /\ downloads["stata"].format = "Stata"
              /\ downloads["stata"].cols = stataFile[1].data.cols
              /\ downloads["stata"].n = stataFile[1].data.n

\* the Stata artifact offered has other columns than the loaded dataset
C20_Witness ==
    /\ Offered /\ "stata" \in DOMAIN downloads
    /\ downloads["stata"].cols # PageData.cols
    /\ downloads["csv"].cols = PageData.cols


Unique(ids) == \A i, j \in 1..Len(ids) : ids[i] = ids[j] => i = j
StoredIds(p) == cache[p].data[1].val[1].id
StoredRows(p) == cache[p].data[1].val[1].n

\* C19 as claimed: every record of every loaded Feature Collection has an
\* identifier, unique among the records, that never changes.
C19_AsClaimed ==
    [][\A p \in Pages : Loaded(p)' =>
          /\ Len(StoredIds(p)') = StoredRows(p)'
          /\ Unique(StoredIds(p)')
          /\ Loaded(p) => StoredIds(p)' = StoredIds(p)]_vars

\* C19 amended: every record of the Feature Collection loaded by a chart
\* page has an identifier, unique among the records, and keeps it across
\* renders, region highlights, cache reuses and reloads; the collection of
\* the Documentation page has no identifiers.
C19_IdsUniqueAndStable ==
    [][\A p \in Pages : Loaded(p)' =>
          IF p = "Documentation" THEN StoredIds(p)' = <<>>
          ELSE /\ Len(StoredIds(p)') = StoredRows(p)'
               /\ Unique(StoredIds(p)')
               /\ Loaded(p) => StoredIds(p)' = StoredIds(p)]_vars

\* Plotlymap highlighted regions of a collection of more than ten records
\* that it got from its cache
C19_Witness ==
    /\ page = "Plotlymap" /\ renders = 2 /\ ~Has(io, "exists_data")
    /\ Loaded(page) /\ StoredRows(page) > 10
    /\ chart # <<>> /\ "is_selected" \in chart[1].cols

\* the attribute columns of the exported Feature Collection, in order
Exported == drop_geometry(export_gdf[1])
\* two cells hold the same value of the same type
SameCell(x, y) ==
    IF x = NaN \/ y = NaN THEN x = NaN /\ y = NaN
    ELSE x[1] = y[1] /\ (x[1] = "geometry" \/ x[2] = y[2])
\* column c of the re-read table holds the cells the Feature Collection holds
SameCells(c) ==
    /\ c \in DOMAIN reread[1].cells
    /\ DOMAIN reread[1].cells[c] = 1..Exported.n
    /\ \A i \in 1..Exported.n : SameCell(reread[1].cells[c][i], Exported.cells[c][i])
\* a text or a missing value that read_csv gives back as it was: a text that
\* is not one of its markers of a missing value
KeptText(cell) == cell = NaN \/ (cell[1] = "str" /\ cell[2] \notin na_values)
\* column c holds integers only
IntegerColumn(c) ==
    \A i \in 1..Exported.n : Exported.cells[c][i] # NaN /\ Exported.cells[c][i][1] = "int"
\* column c holds texts that are kept, one at least, none of which reads as
\* a number
TextColumn(c) ==
    /\ \A i \in 1..Exported.n : KeptText(Exported.cells[c][i])
    /\ \E i \in 1..Exported.n : Exported.cells[c][i] # NaN
    /\ \A i \in 1..Exported.n :
          Exported.cells[c][i] # NaN => ~IsInteger(Exported.cells[c][i][2])

FailedLoadStored ==
    /\ page = "Plotlymap" /\ halt = "return" /\ Has(out, "error")
    /\ <<"Plotlymap", "labels">> \notin aged

\* C21: on Plotlymap a failed load_data returns None and the None is stored
\* like a result: a render that follows within the expiry interval gets the
\* stored None and shows the load failure, without asking for the local file
\* and without a fetch, also when the file has appeared in the meantime.
C21_FailedLoadIsCached ==
    [][(FailedLoadStored /\ page' = "Plotlymap" /\ renders' = renders + 1) =>
          /\ cache["Plotlymap"].data # NoEntry
          /\ cache["Plotlymap"].data[1].val = None
          /\ ~Has(io', "exists_data") /\ ~Fetched(io') /\ ~Wrote(io')
          /\ Has(out', "error") /\ halt' = "return" /\ chart' = <<>>
          /\ dataFile' = dataFile
          /\ cache'["Plotlymap"].data = cache["Plotlymap"].data]_vars

\* a second pass of Plotlymap showed the failure from the stored None while
\* the file was on the disk
C21_Witness ==
    /\ page = "Plotlymap" /\ renders = 2 /\ halt = "return" /\ Has(out, "error")
    /\ io = <<>>
    /\ dataFile # Absent
    /\ cache["Plotlymap"].data # NoEntry /\ cache["Plotlymap"].data[1].val = None
    /\ <<"Plotlymap", "labels">> \notin aged

\* C22: in a pass that reached a chart call every column selectbox returned
\* a valid position of its option list and the column there, a numeric
\* column of the dataset, and the chart was given that column; with a
\* dataset that has no numeric column no chart call is reached, and
\* Plotlymap ends the pass on its warning.
C22_SelectionsAreNumeric ==
    /\ chart # <<>> =>
          /\ selected # <<>>
          /\ \A k \in DOMAIN selected :
                /\ selected[k].index \in 0..(selected[k].options - 1)
                /\ selected[k].col \in chart[1].cols
                /\ Loaded(page) =>
                      /\ selected[k].col \in PageData.num \cap Columns
                      /\ selected[k].options = Cardinality(PageData.num \cap Columns)
    /\ (page \in Pages \ {"Documentation"} /\ Loaded(page)
          /\ PageData.num \cap Columns = {}) =>
          /\ chart = <<>> /\ selected = <<>>
          /\ page = "Plotlymap" => halt = "return" /\ out[Len(out)] = "warning"

\* a Treemap pass drew its chart with the second option chosen in a selectbox
C22_Witness ==
    /\ page = "Treemap" /\ chart # <<>> /\ chart[1].ok
    /\ Len(selected) = 3
    /\ selected[2].index = 1 /\ selected[1].index = 0
    /\ selected[2].col \in PageData.num

\* the numeric columns of the dataset file, in column order
FileOptions == Restrict(dataFile[1].cols, dataFile[1].num)
\* the indices (from 0) of the options whose name is the indicator in any case
Matches(indicator) ==
    {i \in 0..(Len(FileOptions) - 1) : lower(FileOptions[i + 1]) = lower(indicator)}

\* C23: the default of every column selectbox is the position of the first
\* numeric column whose name is the default indicator of the selectbox,
\* letter case ignored, and position 0 when no numeric column matches (the
\* selectbox of Plotlymap, which has no default indicator, shows position
\* 0); with one numeric column or more the default is a valid position.
C23_DefaultIsFirstMatch ==
    (page \in Pages \ {"Documentation"}) =>
        IF FileOptions = <<>> THEN selected = <<>>
        ELSE /\ Len(selected) = IF page = "Plotlymap" THEN 1 ELSE Len(Indicators(page))
             /\ \A k \in DOMAIN selected :
                   LET hits == IF page = "Plotlymap" THEN {}
                               ELSE Matches(Indicators(page)[k])
                   IN  /\ selected[k].index \in 0..(Len(FileOptions) - 1)
                       /\ selected[k].col = FileOptions[selected[k].index + 1]
                       /\ hits = {} => selected[k].index = 0
                       /\ hits # {} => /\ selected[k].index \in hits
                                       /\ \A j \in hits : selected[k].index <= j

\* Treemap showed its defaults over the options pop2020, IMDS, imds: the
\* first spelling of the colour indicator, the size indicator, and position
\* 0 for the hover indicator that is not there
C23_Witness ==
    /\ page = "Treemap"
    /\ FileOptions = <<"pop2020", "IMDS", "imds">>
    /\ Len(selected) = 3
    /\ selected[1].index = 1 /\ selected[1].col = "IMDS"
    /\ selected[2].index = 0 /\ selected[3].index = 0

\* a rendering pass of Plotlymap that reached its height slider
SliderPass == RenderStep /\ page' = "Plotlymap" /\ height_slider' # <<>>

\* C24: on Plotlymap the map height of the session is defined whenever the
\* map layout is built, and it is a multiple of 50 from 400 to 1000; it is
\* 600 until the operator moves the slider, and a height the operator chose
\* is the one the following renders of the session use.
C24_MapHeightInRange ==
    [][/\ (RenderStep /\ page' = "Plotlymap" /\ chart' # <<>>) =>
             /\ height_slider' # <<>>
             /\ map_height' = <<height_slider'[1].value>>
       /\ map_height' # <<>> => map_height'[1] \in SliderValues
       /\ (RenderStep /\ page' = "Plotlymap") => map_height' # <<>>
       /\ (SliderPass /\ height_slider'[1].value = height_slider'[1].default) =>
             map_height' = IF map_height = <<>> THEN <<600>> ELSE map_height
       /\ (SliderPass /\ map_height # <<>>) =>
             height_slider'[1].default = map_height[1]]_vars

\* the operator chose 400 in one render of Plotlymap and the next render of
\* the session built the map with it
C24_Witness ==
    /\ page = "Plotlymap" /\ chart # <<>> /\ renders = 2
    /\ height_slider # <<>>
    /\ height_slider[1].default = 400 /\ height_slider[1].value = 400
    /\ map_height = <<400>>

\* C25: on Scatterfit2 the chart is given no trendline for None, 'ols' for
\* OLS and 'lowess' for Lowess, the scope 'overall' for Overall and 'trace'
\* for Per Department, and the red colour override exactly with the scope
\* 'overall'; anything of the regression statistics is shown only when the
\* trendline chosen is OLS.
C25_TrendlineMapping ==
    (page = "Scatterfit2" /\ chart # <<>>) =>
        /\ trend # <<>>
        /\ chart[1].trendline =
              (CASE trend[1].selected_trendline = "None" -> None
                 [] trend[1].selected_trendline = "OLS" -> <<"ols">>
                 [] trend[1].selected_trendline = "Lowess" -> <<"lowess">>)
        /\ chart[1].trendline_scope =
              (CASE trend[1].selected_scope = "Overall" -> "overall"
                 [] trend[1].selected_scope = "Per Department" -> "trace")
        /\ chart[1].trendline_color_override = <<"red">>
              <=> trend[1].selected_scope = "Overall"
        /\ chart[1].trendline_color_override \in {<<"red">>, None}
        /\ trend[1].selected_trendline # "OLS" =>
              /\ ~Has(out, "stats") /\ ~Has(out, "table")
              /\ ~Has(AfterChart(out), "warning")
              /\ chart[1].ok => AfterChart(out) = <<"info", "text">>

\* a Lowess trendline for each department was drawn without statistics
C25_Witness ==
    /\ page = "Scatterfit2" /\ chart # <<>> /\ chart[1].ok
    /\ trend = <<[selected_trendline |-> "Lowess", selected_scope |-> "Per Department"]>>
    /\ chart[1].trendline = <<"lowess">> /\ chart[1].trendline_scope = "trace"
    /\ chart[1].trendline_color_override = None
    /\ AfterChart(out) = <<"info", "text">>


\* ---------------------------------------------------------------- C26
\* the rows of the data that have a value in both selected columns, counted
\* on the rows themselves, for all the data and for one department
Fitted == regress # <<>> /\ regress[1].done
ValidRows ==
    {i \in 1..Len(regress[1].data) :
        regress[1].data[i].x # NaN /\ regress[1].data[i].y # NaN}
ValidOf(dept) == Cardinality({i \in ValidRows : regress[1].data[i].dep = dept})
Present == {regress[1].data[i].dep : i \in 1..Len(regress[1].data)}
InTable == SeqToSet(regress[1].stats_df)
\* the computation fails: scipy cannot be imported, or linregress is given
\* at least three valid rows whose x values are all identical and raises
FlatX(rowset) ==
    \A i, j \in rowset : regress[1].data[i].x = regress[1].data[j].x
RegressionFails ==
    \/ regress[1].scipy = "missing"
    \/ /\ regress[1].scipy = "raises"
       /\ IF regress[1].scope = "Overall"
          THEN Cardinality(ValidRows) > 2 /\ FlatX(ValidRows)
          ELSE \E d \in Present :
                  /\ ValidOf(d) > 2
                  /\ FlatX({i \in ValidRows : regress[1].data[i].dep = d})

\* C26 as claimed: in the overall scope nothing is displayed with at most
\* two valid rows; in the per-department scope a department has a row of
\* statistics exactly when it has at least three valid rows, and when no
\* department qualifies the 'Insufficient data' notice is shown instead of a
\* table.
C26_AsClaimed ==
    Fitted =>
        /\ (regress[1].scope = "Overall" /\ Cardinality(ValidRows) <= 2) =>
              regress[1].shown = <<>>
        /\ regress[1].scope = "Per Department" =>
              /\ \A d \in Present : d \in InTable <=> ValidOf(d) >= 3
              /\ (\A d \in Present : ValidOf(d) < 3) =>
                    /\ Has(regress[1].shown, "info")
                    /\ ~Has(regress[1].shown, "table")

\* C26: statistics are displayed only in the overall scope with more than
\* two rows that have a value in both selected columns, and a department is
\* in the table only with at least three such rows.  Unless the computation
\* fails (scipy cannot be imported, or linregress raises on the identical x
\* values of a group it fits), the overall scope displays the statistics
\* with more than two valid rows and nothing otherwise, and the
\* per-department scope displays its heading and then the table of exactly
\* the departments with at least three valid rows, or the 'Insufficient
\* data' notice when there is no such department.  When the computation
\* fails a warning is displayed, and neither statistics nor a table.
C26_StatisticsNeedThreeValidRows ==
    Fitted =>
        /\ Has(regress[1].shown, "stats") =>
              regress[1].scope = "Overall" /\ Cardinality(ValidRows) > 2
        /\ \A d \in InTable : d \in Present /\ ValidOf(d) >= 3
        /\ InTable # {} <=> Has(regress[1].shown, "table")
        /\ Has(regress[1].shown, "table") => regress[1].scope = "Per Department"
        /\ (~RegressionFails /\ regress[1].scope = "Overall") =>
              regress[1].shown =
                 (IF Cardinality(ValidRows) > 2 THEN <<"stats">> ELSE <<>>)
        /\ (~RegressionFails /\ regress[1].scope = "Per Department") =>
              /\ InTable = {d \in Present : ValidOf(d) >= 3}
              /\ regress[1].shown =
                    (IF \E d \in Present : ValidOf(d) >= 3
                     THEN <<"text", "table">> ELSE <<"text", "info">>)
        /\ RegressionFails =>
              /\ Has(regress[1].shown, "warning")
              /\ ~Has(regress[1].shown, "stats")
              /\ ~Has(regress[1].shown, "table")
              /\ InTable = {}

\* a department with three valid rows is in the table while another, whose
\* only row lacks a value, is not
C26_Witness ==
    /\ Fitted
    /\ regress[1].scope = "Per Department"
    /\ regress[1].shown = <<"text", "table">>
    /\ regress[1].stats_df = <<"La Paz">>
    /\ ValidOf("La Paz") = 3
    /\ "Oruro" \in Present
    /\ ValidOf("Oruro") = 0

\* ---------------------------------------------------------------- C27
\* the files the application has on disk
filesystem == <<dataFile, labelFile, stataFile>>

\* C27: a step of the application changes no file and writes nothing,
\* unless it is a rendering pass of Plotlymap or PlotlymapV2 in which the
\* loader ran, found the dataset file absent and fetched it remotely, and
\* then only the dataset file is written; a load that finds the file
\* locally, and every load of a page without the remote fallback, leaves
\* the files as they were.
C27_LocalLoadWritesNothing ==
    [][/\ (RenderStep /\ dataFile # Absent) =>
              filesystem' = filesystem /\ ~Wrote(io')
       /\ (RenderStep /\ page' \notin FallbackPages) =>
              filesystem' = filesystem /\ ~Wrote(io')
       /\ ((RenderStep /\ Wrote(io')) \/ filesystem' # filesystem) =>
              /\ LoaderRan
              /\ page' \in FallbackPages
              /\ dataFile = Absent
              /\ Has(io', "fetch_ok")
              /\ ~Has(io', "read_local")
              /\ labelFile' = labelFile /\ stataFile' = stataFile
              /\ dataFile' \in {Absent, File(RemoteData)}]_vars

\* the loader of a page without the fallback, and then the loader of
\* Plotlymap, read a dataset file that is not the remote one, and it is
\* still on disk
C27_Witness ==
    /\ renders = 2
    /\ page = "Plotlymap"
    /\ Has(io, "read_local") /\ ~Wrote(io)
    /\ cache["Treemap"].data # NoEntry
    /\ dataFile # Absent /\ dataFile # File(RemoteData)
====
